---- MODULE Spec2Model ----
(***************************************************************************)
(* Orange/base.py: Model.__call__ and the class back-mapping helpers       *)
(* (get_backmappers, backmap_value, backmap_probs).                        *)
(*                                                                         *)
(* Numbers.  Probabilities are exact rationals <<n, d>> in lowest terms;   *)
(* <<0, 0>> is not-a-number and <<1, 0>> is +inf (numpy's results of 0/0   *)
(* and x/0).  Entries of value arrays and of index mappings are 0-based    *)
(* category indices, NaN for the undefined entry.  Arrays are sequences    *)
(* (1-based), so the category with index i is values[i + 1].               *)
(***************************************************************************)
EXTENDS Integers, Sequences, FiniteSets, TLC

VARIABLES
    self,         \* the model: [class_vars, attributes, original_attributes]
    arg,          \* the object the caller passed as `data`
    data,         \* the local `data` of the running call
    ret,          \* the argument `ret` of the running call (a rational)
    pc,           \* position inside Model.__call__ / the applied function
    one_d,        \* the local flag one_d
    backmappers,  \* the local backmappers (None or one mapper per target)
    n_values,     \* the local n_values
    prediction,   \* what the raw predictor returned
    value,        \* the local value (None or an array)
    probs,        \* the local probs (None or an array)
    result,       \* what the call returned
    err,          \* the exception the call raised ("" for none)
    trace,        \* the steps the call has executed, in order
    rng0,         \* the stream of np.random.RandomState(0)
    suspended,    \* the locals of a second, concurrent call (suspended)
    np_random     \* the stream of the process-wide generator np.random

vars == <<self, arg, data, ret, pc, one_d, backmappers, n_values, prediction,
          value, probs, result, err, trace, rng0, suspended,
          np_random>>

-----------------------------------------------------------------------------
(* Bounds *)

MaxRows == 2
MaxW == 2

-----------------------------------------------------------------------------
(* Python's None and optional values *)

None == [none |-> TRUE, val |-> <<>>]
Some(v) == [none |-> FALSE, val |-> v]

NaN == -1

-----------------------------------------------------------------------------
(* Exact rational arithmetic standing for the float arrays *)

RECURSIVE GCD(_, _)
GCD(a, b) == IF b = 0 THEN a ELSE GCD(b, a % b)

Rat(n, d) ==
    IF n = 0 /\ d = 0 THEN <<0, 0>>
    ELSE LET g == GCD(n, d) IN <<n \div g, d \div g>>

RZero == <<0, 1>>
ROne == <<1, 1>>
RNaN == <<0, 0>>

RAdd(x, y) == Rat(x[1] * y[2] + y[1] * x[2], x[2] * y[2])

\* numpy true division: 0/0 is nan, x/0 is inf
RDiv(x, y) == Rat(x[1] * y[2], x[2] * y[1])

RLess(x, y) == x[1] * y[2] < y[1] * x[2]

RECURSIVE RSum(_)
RSum(row) == IF row = <<>> THEN RZero ELSE RAdd(Head(row), RSum(Tail(row)))

Max(S) == CHOOSE x \in S : \A y \in S : y <= x

RECURSIVE MaxOf(_)
MaxOf(seq) ==
    IF Len(seq) = 1 THEN seq[1]
    ELSE LET m == MaxOf(Tail(seq)) IN IF seq[1] >= m THEN seq[1] ELSE m

\* numpy arrays carry their rank: [ndim |-> k, a |-> nested sequences]
Arr(k, a) == [ndim |-> k, a |-> a]

\* what a function returns, or the exception it raises
Ok(v) == [err |-> "", val |-> v]
Raise(e) == [err |-> e, val |-> <<>>]

-----------------------------------------------------------------------------
(* Variables of a domain (Orange.data.variable) *)

DiscreteVariable(id, name, values) ==
    [id |-> id, name |-> name, is_discrete |-> TRUE, values |-> values,
     compute_value |-> "None"]

ContinuousVariable(id, name) ==
    [id |-> id, name |-> name, is_discrete |-> FALSE, values |-> <<>>,
     compute_value |-> "None"]

\* `a is b`: object identity
Is(a, b) == a.id = b.id

\* Variable.__eq__: same type, same name, same compute_value; the
\* value-sets are not compared
VarEq(a, b) ==
    /\ a.is_discrete = b.is_discrete
    /\ a.name = b.name
    /\ a.compute_value = b.compute_value

IndexOf(seq, x) ==
    IF \E i \in 1..Len(seq) : seq[i] = x
    THEN (CHOOSE i \in 1..Len(seq) : seq[i] = x) - 1
    ELSE NaN

\* DiscreteVariable.get_mapper_from(other): for each category index of
\* `other` the index of the same label in var.values, or NaN
get_mapper_from(var, other) ==
    [i \in 1..Len(other.values) |-> IndexOf(var.values, other.values[i])]

-----------------------------------------------------------------------------
(* Model.backmap_probs *)

\* backmap_probs_single without the replacement of zero-sum rows (296-297)
backmap_probs_single_no_uniform(P, n_value, backmapper) ==
    LET W == Len(P[1])
        src(j) == {c \in 1..W : backmapper[c] = j - 1}
        new_probs == [r \in 1..Len(P) |-> [j \in 1..n_value |->
                        IF src(j) = {} THEN RZero ELSE P[r][Max(src(j))]]]
        tots == [r \in 1..Len(P) |-> RSum(new_probs[r])]
    IN  IF \E c \in 1..W : c > Len(backmapper)
        THEN Raise("IndexError")
        ELSE IF \E c \in 1..W : backmapper[c] # NaN /\ backmapper[c] >= n_value
        THEN Raise("IndexError")
        ELSE Ok([r \in 1..Len(P) |-> [j \in 1..n_value |->
                        RDiv(new_probs[r][j], tots[r])]])

\* backmap_probs_single with new_probs as wide as the model's value-set
\* instead of n_value (line 289)
backmap_probs_single_model_width(P, n_value, backmapper) ==
    LET W == Len(P[1])
        width == Len(backmapper)
        src(j) == {c \in 1..W : backmapper[c] = j - 1}
        new_probs == [r \in 1..Len(P) |-> [j \in 1..width |->
                        IF src(j) = {} THEN RZero ELSE P[r][Max(src(j))]]]
        tots == [r \in 1..Len(P) |-> RSum(new_probs[r])]
    IN  IF \E c \in 1..W : c > Len(backmapper)
        THEN Raise("IndexError")
        ELSE IF \E c \in 1..W : backmapper[c] # NaN /\ backmapper[c] >= width
        THEN Raise("IndexError")
        ELSE Ok([r \in 1..Len(P) |-> [j \in 1..width |->
                        IF tots[r] = RZero THEN Rat(1, width)
                        ELSE RDiv(new_probs[r][j], tots[r])]])

\* backmap_probs_single without the division by the row sums (line 298)
backmap_probs_single_no_division(P, n_value, backmapper) ==
    LET W == Len(P[1])
        src(j) == {c \in 1..W : backmapper[c] = j - 1}
    IN  IF \E c \in 1..W : c > Len(backmapper)
        THEN Raise("IndexError")
        ELSE IF \E c \in 1..W : backmapper[c] # NaN /\ backmapper[c] >= n_value
        THEN Raise("IndexError")
        ELSE Ok([r \in 1..Len(P) |-> [j \in 1..n_value |->
                        IF src(j) = {} THEN RZero ELSE P[r][Max(src(j))]]])

\* lines 285-299: one target, probs is a 2-d array (a sequence of rows)
backmap_probs_single(P, n_value, backmapper) ==
    LET W == Len(P[1])
        src(j) == {c \in 1..W : backmapper[c] = j - 1}
        new_probs == [r \in 1..Len(P) |-> [j \in 1..n_value |->
                        IF src(j) = {} THEN RZero ELSE P[r][Max(src(j))]]]
        tots == [r \in 1..Len(P) |-> RSum(new_probs[r])]
        zero_sum == [r \in 1..Len(P) |-> tots[r] = RZero]
        ones == [r \in 1..Len(P) |-> [j \in 1..n_value |->
                        IF zero_sum[r] THEN ROne ELSE new_probs[r][j]]]
        tots2 == [r \in 1..Len(P) |->
                        IF zero_sum[r] THEN Rat(n_value, 1) ELSE tots[r]]
    IN  IF \E c \in 1..W : c > Len(backmapper)
        THEN Raise("IndexError")        \* backmapper(col): mapping[col]
        ELSE IF \E c \in 1..W : backmapper[c] # NaN /\ backmapper[c] >= n_value
        THEN Raise("IndexError")        \* new_probs[:, int(target)]
        ELSE Ok([r \in 1..Len(P) |-> [j \in 1..n_value |->
                        RDiv(ones[r][j], tots2[r])]])

\* probs[:, i, :] of a 3-d array, i 0-based
Slice(P, i) == [r \in 1..Len(P) |-> P[r][i + 1]]

\* new_probs[:, i, :n_value] = block, numpy broadcasting the last axis
Broadcastable(block, n_value) ==
    Len(block[1]) = n_value \/ Len(block[1]) = 1

Padded(block, n_value, width) ==
    [r \in 1..Len(block) |-> [j \in 1..width |->
        IF j > n_value THEN RZero
        ELSE IF Len(block[r]) = 1 THEN block[r][1] ELSE block[r][j]]]

\* lines 285-287 of the recursive call on one target's block
backmap_probs_block(P, n_value, backmapper) ==
    IF backmapper.none THEN Ok(P)
    ELSE backmap_probs_single(P, n_value, backmapper.val)

\* lines 272-299
backmap_probs(P, nv, bm) ==
    IF bm.none THEN Ok(P)
    ELSE IF P.ndim = 3
    THEN LET n == IF Len(nv) <= Len(bm.val) THEN Len(nv) ELSE Len(bm.val)
             width == MaxOf(nv)
             blk(i) == backmap_probs_block(Slice(P.a, i), nv[i + 1], bm.val[i + 1])
             bad(i) == \/ blk(i).err # ""
                       \/ ~Broadcastable(blk(i).val, nv[i + 1])
             fails == {i \in 0..(n - 1) : bad(i)}
             first == CHOOSE i \in fails : \A k \in fails : i <= k
         IN  IF fails # {}
             THEN IF blk(first).err # "" THEN Raise(blk(first).err)
                  ELSE Raise("ValueError")
             ELSE Ok(Arr(3, [r \in 1..Len(P.a) |-> [t \in 1..Len(nv) |->
                    IF t > n THEN [j \in 1..width |-> RZero]
                    ELSE Padded(blk(t - 1).val, nv[t], width)[r]]]))
    ELSE LET out == backmap_probs_block(P.a, nv[1], bm.val[1])
         IN  IF out.err # "" THEN out ELSE Ok(Arr(2, out.val))

-----------------------------------------------------------------------------
(* Model.backmap_value *)

\* np.argmax along the last axis of one row: lowest index of the maximum
ArgMax(row) ==
    (CHOOSE j \in 1..Len(row) :
        /\ \A k \in 1..Len(row) : ~RLess(row[j], row[k])
        /\ \A k \in 1..(j - 1) : RLess(row[k], row[j])) - 1

\* the mapper applied to an array: NaN stays NaN, i becomes mapping[i]
MapArray(backmapper, v) ==
    [r \in 1..Len(v) |-> IF v[r] = NaN THEN NaN ELSE backmapper[v[r] + 1]]

\* the draw taken from the process-wide generator np.random instead
Choice0_process_wide(cands, s) == cands[(np_random[s] % Len(cands)) + 1]

\* np.random.RandomState(0).choice(cands, (k,)): the s-th draw of the
\* generator seeded with the constant 0 (line 267); rng0 is its stream
Choice0(cands, s) == cands[(rng0[s] % Len(cands)) + 1]

\* line 268: backmapper(np.arange(0, n_values[0] - 1)), what choice draws from
candidates(n_value, backmapper) ==
    MapArray(backmapper, [i \in 1..(n_value - 1) |-> i - 1])

\* backmap_value_single that leaves the undefined entries unresolved
backmap_value_single_unresolved(v, mapped_probs, n_value, backmapper) ==
    IF \E r \in 1..Len(v) : v[r] # NaN /\ v[r] >= Len(backmapper)
    THEN Raise("IndexError")
    ELSE Ok(MapArray(backmapper, v))

\* backmap_value_single without the test of n_values[0] at line 262
backmap_value_single_any_cardinality(v, mapped_probs, n_value, backmapper) ==
    LET mapped == MapArray(backmapper, v)
        nans == {r \in 1..Len(v) : mapped[r] = NaN}
        rank(r) == Cardinality({q \in nans : q <= r})
        cands == candidates(n_value, backmapper)
    IN  IF \E r \in 1..Len(v) : v[r] # NaN /\ v[r] >= Len(backmapper)
        THEN Raise("IndexError")
        ELSE IF nans = {} THEN Ok(mapped)
        ELSE IF ~mapped_probs.none
        THEN Ok([r \in 1..Len(v) |->
                IF r \in nans THEN ArgMax(mapped_probs.val[r]) ELSE mapped[r]])
        ELSE IF n_value - 1 > Len(backmapper) THEN Raise("IndexError")
        ELSE Ok([r \in 1..Len(v) |->
                IF r \in nans THEN Choice0(cands, rank(r)) ELSE mapped[r]])

\* lines 256-270: one target, value is a 1-d array, mapped_probs None or rows
backmap_value_single(v, mapped_probs, n_value, backmapper) ==
    LET mapped == MapArray(backmapper, v)
        nans == {r \in 1..Len(v) : mapped[r] = NaN}
        rank(r) == Cardinality({q \in nans : q <= r})
        cands == candidates(n_value, backmapper)
    IN  IF \E r \in 1..Len(v) : v[r] # NaN /\ v[r] >= Len(backmapper)
        THEN Raise("IndexError")
        ELSE IF nans = {} \/ n_value < 2 THEN Ok(mapped)
        ELSE IF ~mapped_probs.none
        THEN Ok([r \in 1..Len(v) |->
                IF r \in nans THEN ArgMax(mapped_probs.val[r]) ELSE mapped[r]])
        ELSE IF n_value - 1 > Len(backmapper) THEN Raise("IndexError")
        ELSE Ok([r \in 1..Len(v) |->
                IF r \in nans THEN Choice0(cands, rank(r)) ELSE mapped[r]])

\* value[:, i] of a 2-d array, i 0-based
Column(v, i) == [r \in 1..Len(v) |-> v[r][i + 1]]

\* lines 256-258 of the recursive call on one target's column
backmap_value_column(v, mapped_probs, n_value, backmapper) ==
    IF backmapper.none THEN Ok(v)
    ELSE backmap_value_single(v, mapped_probs, n_value, backmapper.val)

\* lines 244-270
backmap_value(v, mapped_probs, nv, bm) ==
    IF bm.none THEN Ok(v)
    ELSE IF v.ndim = 2
    THEN IF mapped_probs.none THEN Raise("TypeError")   \* None[:, i, :]
         ELSE IF mapped_probs.val.ndim # 3 THEN Raise("IndexError")
         ELSE
         LET n == IF Len(nv) <= Len(bm.val) THEN Len(nv) ELSE Len(bm.val)
             col(i) == backmap_value_column(Column(v.a, i),
                            Some(Slice(mapped_probs.val.a, i)),
                            nv[i + 1], bm.val[i + 1])
             fails == {i \in 0..(n - 1) : col(i).err # ""}
             first == CHOOSE i \in fails : \A k \in fails : i <= k
         IN  IF fails # {} THEN Raise(col(first).err)
             ELSE Ok(Arr(2, [r \in 1..Len(v.a) |-> [t \in 1..Len(v.a[r]) |->
                    IF t > n THEN 0 ELSE col(t - 1).val[r]]]))
    ELSE LET out == backmap_value_column(v.a,
                        IF mapped_probs.none THEN None
                        ELSE Some(mapped_probs.val.a), nv[1], bm.val[1])
         IN  IF out.err # "" THEN out ELSE Ok(Arr(1, out.val))

-----------------------------------------------------------------------------
(* Model.get_backmappers *)

\* the DomainTransformationErrors, by message
DTE_Number == "DomainTransformationError: mismatching number of classes"
DTE_CannotPredict == "DomainTransformationError: model cannot predict"
DTE_Incompatible == "DomainTransformationError: incompatible variable"
DTE_NoDefined == "DomainTransformationError: no defined values"
DomainTransformationError ==
    {DTE_Number, DTE_CannotPredict, DTE_Incompatible, DTE_NoDefined}

\* backmapper_for without the identity test of line 236
backmapper_for_any_object(dataclass, modelclass) ==
    IF dataclass.is_discrete
    THEN Some(get_mapper_from(dataclass, modelclass))
    ELSE None

\* lines 235-239: the mapper of one (dataclass, modelclass) pair
backmapper_for(dataclass, modelclass) ==
    IF ~Is(dataclass, modelclass) /\ dataclass.is_discrete
    THEN Some(get_mapper_from(dataclass, modelclass))
    ELSE None

\* line 235: dataclass.is_discrete and len(dataclass.values); False is 0
n_value_of(dataclass) ==
    IF dataclass.is_discrete THEN Len(dataclass.values) ELSE 0

\* get_backmappers without the raise of lines 230-233: unequal variables of
\* the same name fall through to the construction of the mapper
get_backmappers_no_incompatible(dataclasses, modelclasses) ==
    LET n == Len(dataclasses)
        ne == {i \in 1..n : /\ ~VarEq(dataclasses[i], modelclasses[i])
                            /\ dataclasses[i].name # modelclasses[i].name}
        bms == [i \in 1..n |-> backmapper_for(dataclasses[i], modelclasses[i])]
    IN  IF modelclasses = <<>> \/ dataclasses = <<>> THEN Ok(<<None, <<>>>>)
        ELSE IF Len(dataclasses) # Len(modelclasses)
        THEN Raise(DTE_Number)
        ELSE IF ne # {}
        THEN Raise(DTE_CannotPredict)
        ELSE Ok(<<IF \A i \in 1..n : bms[i].none THEN None ELSE Some(bms),
                  [i \in 1..n |-> n_value_of(dataclasses[i])]>>)

\* get_backmappers with the test of the names (line 226) inverted
get_backmappers_names_inverted(dataclasses, modelclasses) ==
    LET n == Len(dataclasses)
        ne == {i \in 1..n : ~VarEq(dataclasses[i], modelclasses[i])}
        first == CHOOSE i \in ne : \A k \in ne : i <= k
        bms == [i \in 1..n |-> backmapper_for(dataclasses[i], modelclasses[i])]
    IN  IF modelclasses = <<>> \/ dataclasses = <<>> THEN Ok(<<None, <<>>>>)
        ELSE IF Len(dataclasses) # Len(modelclasses)
        THEN Raise(DTE_Number)
        ELSE IF ne # {}
        THEN IF dataclasses[first].name = modelclasses[first].name
             THEN Raise(DTE_CannotPredict)
             ELSE Raise(DTE_Incompatible)
        ELSE Ok(<<IF \A i \in 1..n : bms[i].none THEN None ELSE Some(bms),
                  [i \in 1..n |-> n_value_of(dataclasses[i])]>>)

\* get_backmappers without the comparison of the lengths (lines 221-223):
\* zip pairs the class variables up to the shorter list
get_backmappers_no_count_check(dataclasses, modelclasses) ==
    LET n == IF Len(dataclasses) <= Len(modelclasses)
             THEN Len(dataclasses) ELSE Len(modelclasses)
        ne == {i \in 1..n : ~VarEq(dataclasses[i], modelclasses[i])}
        first == CHOOSE i \in ne : \A k \in ne : i <= k
        bms == [i \in 1..n |-> backmapper_for(dataclasses[i], modelclasses[i])]
    IN  IF modelclasses = <<>> \/ dataclasses = <<>> THEN Ok(<<None, <<>>>>)
        ELSE IF ne # {}
        THEN IF dataclasses[first].name # modelclasses[first].name
             THEN Raise(DTE_CannotPredict)
             ELSE Raise(DTE_Incompatible)
        ELSE Ok(<<IF \A i \in 1..n : bms[i].none THEN None ELSE Some(bms),
                  [i \in 1..n |-> n_value_of(dataclasses[i])]>>)

\* lines 213-242; the value is <<backmappers, n_values>>
get_backmappers(dataclasses, modelclasses) ==
    LET n == Len(dataclasses)
        ne == {i \in 1..n : ~VarEq(dataclasses[i], modelclasses[i])}
        first == CHOOSE i \in ne : \A k \in ne : i <= k
        bms == [i \in 1..n |-> backmapper_for(dataclasses[i], modelclasses[i])]
    IN  IF modelclasses = <<>> \/ dataclasses = <<>> THEN Ok(<<None, <<>>>>)
        ELSE IF Len(dataclasses) # Len(modelclasses)
        THEN Raise(DTE_Number)
        ELSE IF ne # {}
        THEN IF dataclasses[first].name # modelclasses[first].name
             THEN Raise(DTE_CannotPredict)
             ELSE Raise(DTE_Incompatible)
        ELSE Ok(<<IF \A i \in 1..n : bms[i].none THEN None ELSE Some(bms),
                  [i \in 1..n |-> n_value_of(dataclasses[i])]>>)

-----------------------------------------------------------------------------
(* Model.__call__: the return modes and the local helpers *)

Value == 0
Probs == 1
ValueProbs == 2

RInt(n) == <<n, 1>>
RLeq(x, y) == ~RLess(y, x)

multitarget == Len(self.class_vars) > 1

\* Orange.data.util.one_hot(values): np.eye(max(values) + 1)[values]
one_hot(v) ==
    LET dim == MaxOf(v) + 1
    IN  [r \in 1..Len(v) |-> [j \in 1..dim |-> IF j = v[r] + 1 THEN ROne ELSE RZero]]

\* lines 304-312
one_hot_probs(v) ==
    IF ~multitarget THEN Ok(Arr(2, one_hot(v.a)))
    ELSE LET max_card == MaxOf([i \in 1..Len(self.class_vars) |->
                                    Len(self.class_vars[i].values)])
             blk(i) == one_hot(Column(v.a, i))
             targets == 0..(Len(self.class_vars) - 1)
         IN  IF \E i \in targets : ~self.class_vars[i + 1].is_discrete
             THEN Raise("AttributeError")    \* c.values of a continuous c
             ELSE IF \E i \in targets : ~Broadcastable(blk(i), max_card)
             THEN Raise("ValueError")    \* probs[:, i, :] = one_hot(...)
             ELSE Ok(Arr(3, [r \in 1..Len(v.a) |-> [t \in 1..Len(v.a[r]) |->
                    IF t - 1 \in targets
                    THEN Padded(blk(t - 1), max_card, max_card)[r]
                    ELSE [j \in 1..max_card |-> RZero]]]))

\* fix_dim that never unwraps
fix_dim_batch(x) == x

\* lines 314-315
fix_dim(x) == IF one_d THEN Arr(x.ndim - 1, x.a[1]) ELSE x

\* np.argmax(probs, axis=-1); an empty last axis is a ValueError
ArgMaxLast(P) ==
    IF P.ndim = 3
    THEN IF \E r \in 1..Len(P.a) : \E t \in 1..Len(P.a[r]) : P.a[r][t] = <<>>
         THEN Raise("ValueError")
         ELSE Ok(Arr(2, [r \in 1..Len(P.a) |->
                    [t \in 1..Len(P.a[r]) |-> ArgMax(P.a[r][t])]]))
    ELSE IF \E r \in 1..Len(P.a) : P.a[r] = <<>>
         THEN Raise("ValueError")
         ELSE Ok(Arr(1, [r \in 1..Len(P.a) |-> ArgMax(P.a[r])]))

-----------------------------------------------------------------------------
(* Domains and tables, as far as data_to_model_domain reads them *)

Range(seq) == {seq[i] : i \in 1..Len(seq)}

\* Domain.__eq__: the same attributes and equal class variables
DomainEq(d, m) ==
    /\ d.attributes = m.attributes
    /\ Len(d.class_vars) = Len(m.class_vars)
    /\ \A i \in 1..Len(d.class_vars) : VarEq(d.class_vars[i], m.class_vars[i])

\* all_nan(data.X) and data.X.size
all_nan(d) == d.X_defined = {}
X_size(d) == d.nrows * Len(d.attributes)

\* Table.transform(domain): a column is defined where the source has a
\* defined column of that name
transform(d, attributes, class_vars) ==
    [d EXCEPT !.attributes = attributes, !.class_vars = class_vars,
              !.X_defined = d.X_defined \cap Range(attributes)]

\* data_to_model_domain without the comparison of the domains (318-319)
data_to_model_domain_no_fast_path(d) ==
    IF /\ self.original_attributes # d.attributes
       /\ X_size(d) # 0
       /\ ~all_nan(d)
    THEN LET new_data == transform(d, self.original_attributes, self.class_vars)
         IN  IF all_nan(new_data) THEN Raise(DTE_NoDefined)
             ELSE Ok(transform(new_data, self.attributes, self.class_vars))
    ELSE Ok(transform(d, self.attributes, self.class_vars))

\* data_to_model_domain without the test of the intermediate table (324-326)
data_to_model_domain_unchecked(d) ==
    IF DomainEq(d, self) THEN Ok(d)
    ELSE IF /\ self.original_attributes # d.attributes
            /\ X_size(d) # 0
            /\ ~all_nan(d)
    THEN Ok(transform(transform(d, self.original_attributes, self.class_vars),
                      self.attributes, self.class_vars))
    ELSE Ok(transform(d, self.attributes, self.class_vars))

\* lines 317-330
data_to_model_domain(d) ==
    IF DomainEq(d, self) THEN Ok(d)
    ELSE IF /\ self.original_attributes # d.attributes
            /\ X_size(d) # 0
            /\ ~all_nan(d)
    THEN LET new_data == transform(d, self.original_attributes, self.class_vars)
         IN  IF all_nan(new_data) THEN Raise(DTE_NoDefined)
             ELSE Ok(transform(new_data, self.attributes, self.class_vars))
    ELSE Ok(transform(d, self.attributes, self.class_vars))

-----------------------------------------------------------------------------
(* The models and the arguments of a call *)

Y3 == DiscreteVariable(1, "y", <<"a", "b", "c">>)
Y2 == DiscreteVariable(1, "y", <<"a", "b">>)
YC == ContinuousVariable(1, "y")
Z3 == DiscreteVariable(2, "z", <<"a", "b", "c">>)
ZC == ContinuousVariable(2, "z")

ModelClassVars == {<<>>, <<Y3>>, <<Y2>>, <<YC>>, <<Y2, Z3>>, <<Y2, ZC>>}

Attrs == <<"x1", "x2">>

\* a model whose preprocessing kept the attributes, and one whose dropped x3
Models ==
    {[class_vars |-> cv, attributes |-> Attrs, original_attributes |-> Attrs] :
        cv \in ModelClassVars}
    \cup {[class_vars |-> <<Y2>>, attributes |-> Attrs,
           original_attributes |-> <<"x1", "x2", "x3">>]}

\* the value-sets a query may declare for a class variable
QueryValues ==
    {<<"a", "b">>, <<"a", "b", "c">>, <<"b", "a">>, <<"c", "d">>, <<"a">>, <<>>}

\* the class variables a query may hold in the place of the model's m
QueryVars(m) ==
    {m}
    \cup (IF m.is_discrete
          THEN {DiscreteVariable(m.id + 10, m.name, vs) : vs \in QueryValues}
          ELSE {ContinuousVariable(m.id + 10, m.name)})
    \cup {[m EXCEPT !.id = m.id + 10, !.name = "w"],
          [m EXCEPT !.id = m.id + 10, !.compute_value = "Identity"],
          IF m.is_discrete THEN ContinuousVariable(m.id + 20, m.name)
          ELSE DiscreteVariable(m.id + 20, m.name, <<"a", "b">>)}

QueryVarsMulti(m) ==
    (IF m.is_discrete
     THEN {m, DiscreteVariable(m.id + 10, m.name, <<"a", "b">>),
              DiscreteVariable(m.id + 10, m.name, <<"b">>)}
     ELSE {m, ContinuousVariable(m.id + 10, m.name)})
    \cup {[m EXCEPT !.id = m.id + 10, !.name = "w"],
          [m EXCEPT !.id = m.id + 10, !.compute_value = "Identity"]}

\* the class variables of a query for a model over cv: one per target, or
\* of another number, none included
QueryClassVars(cv) ==
    IF Len(cv) = 0 THEN {<<>>, <<DiscreteVariable(11, "y", <<"a", "b">>)>>}
    ELSE IF Len(cv) = 1
    THEN {<<q>> : q \in QueryVars(cv[1])}
         \cup {<<>>, <<cv[1], DiscreteVariable(12, "z", <<"a", "b">>)>>,
               <<[cv[1] EXCEPT !.id = @ + 10, !.name = "w"],
                 DiscreteVariable(12, "z", <<"a", "b">>)>>}
    ELSE {<<q1, q2>> : q1 \in QueryVarsMulti(cv[1]), q2 \in QueryVarsMulti(cv[2])}
         \cup {<<>>, <<cv[1]>>}

NoData(type) ==
    [type |-> type, ndim |-> 0, len |-> 0, first |-> "", class_vars |-> <<>>,
     attributes |-> <<>>, X_defined |-> {}, nrows |-> 0, applied |-> <<>>]

TableData(type, cv, attributes, defined, n) ==
    [NoData(type) EXCEPT !.class_vars = cv, !.attributes = attributes,
                         !.X_defined = defined, !.nrows = n]

\* a list or tuple of `len` elements whose first element has type `first`
ListData(type, len, first) ==
    [NoData(type) EXCEPT !.len = len, !.first = first,
        !.nrows = IF first \in {"list", "tuple"} THEN len ELSE 1]

ArrayData(type, ndim, n) == [NoData(type) EXCEPT !.ndim = ndim, !.nrows = n]

QueryAttributes == {Attrs, <<"x1", "x2", "x3">>, <<"u">>, <<>>}

\* tables that differ from the model in their class variables, and tables
\* that differ in their attributes
Tables(m) ==
    {TableData("Table", cv, Attrs, Range(Attrs), MaxRows) :
        cv \in QueryClassVars(m.class_vars)}
    \cup UNION {{TableData("Table", cv, at, df, 1) :
                    cv \in {m.class_vars, [i \in 1..Len(m.class_vars) |->
                                [m.class_vars[i] EXCEPT !.id = @ + 10, !.name = "w"]]},
                    df \in {{}, Range(at)}} : at \in QueryAttributes}

Instances(m) ==
    {TableData("Instance", cv, Attrs, Range(Attrs), 1) :
        cv \in QueryClassVars(m.class_vars)}

Lists ==
    {ListData(t, 0, "") : t \in {"list", "tuple"}}
    \cup {ListData(t, 2, "float") : t \in {"list", "tuple"}}
    \cup {ListData(t, 1, f) : t \in {"list", "tuple"}, f \in {"list", "tuple"}}
    \cup {ListData("list", MaxRows, "list")}

Arrays ==
    {ArrayData("ndarray", 1, 1), ArrayData("ndarray", 0, 1),
     ArrayData("ndarray", 2, 1), ArrayData("ndarray", 2, MaxRows),
     ArrayData("ndarray", 3, 1), ArrayData("csr_matrix", 2, 1),
     ArrayData("csc_matrix", 2, 1)}

Others == {NoData("str"), NoData("NoneType")}

Inputs(m) == Tables(m) \cup Instances(m) \cup Lists \cup Arrays \cup Others

\* the values of `ret` a caller may pass
RetArgs == {<<0 - 1, 1>>, RInt(Value), RInt(Probs), <<3, 2>>, RInt(ValueProbs), <<3, 1>>}

-----------------------------------------------------------------------------
(* What the raw predictor may return for n rows *)

Card(v) == IF v.is_discrete THEN Len(v.values) ELSE 2

\* the range of a single-target predictor; a classless model has two outputs
ClassCard == IF self.class_vars = <<>> THEN 2 ELSE Card(self.class_vars[1])

MaxCard == MaxOf([i \in 1..Len(self.class_vars) |-> Card(self.class_vars[i])])

ValueRows ==
    IF multitarget
    THEN {row \in [1..Len(self.class_vars) -> 0..(MaxCard - 1)] :
            \A t \in 1..Len(self.class_vars) : row[t] < Card(self.class_vars[t])}
    ELSE 0..(ClassCard - 1)

\* the distributions over `card` categories with weights k / MaxW, zero-padded
ProbRow(card, width) ==
    {[j \in 1..width |-> Rat(w[j], MaxW)] :
        w \in {x \in [1..width -> 0..MaxW] :
                /\ \A j \in 1..width : j > card => x[j] = 0
                /\ RSum([j \in 1..width |-> RInt(x[j])]) = RInt(MaxW)}}

\* a single-target predictor returns any distribution, a multi-target one
\* the zero-padded one-hot rows
ProbRows ==
    IF multitarget
    THEN {[t \in 1..Len(self.class_vars) |-> [j \in 1..MaxCard |->
                IF j = row[t] + 1 THEN ROne ELSE RZero]] : row \in ValueRows}
    ELSE ProbRow(ClassCard, ClassCard)

m01 == IF multitarget THEN 1 ELSE 0

ValueArrays(n) == {Arr(1 + m01, a) : a \in [1..n -> ValueRows]}
ProbArrays(n) == {Arr(2 + m01, a) : a \in [1..n -> ProbRows]}

Array(x) == [is_tuple |-> FALSE, arr |-> x, pair |-> <<>>]
Tuple(v, p) == [is_tuple |-> TRUE, arr |-> Arr(0, <<>>), pair |-> <<v, p>>]

\* the raw predictor returns values, probabilities, both, or something else
Predicts(n, y) ==
    \/ \E v \in ValueArrays(n) : y = Array(v)
    \/ /\ \A i \in 1..Len(self.class_vars) : self.class_vars[i].is_discrete
       /\ \/ \E x \in ProbArrays(n) : y = Array(x)
          \/ \E x \in ProbArrays(n) : y = Tuple(ArgMaxLast(x).val, x)
    \/ y = Array(Arr(0, <<>>))

-----------------------------------------------------------------------------
(* Model.__call__(data, ret), lines 301-397, one action per step *)

NoArr == Arr(0, <<>>)
NoPrediction == Array(NoArr)

Streams == [1..MaxRows -> {0, 1}]

\* what a call returns: the value and/or the probabilities
NoResult == [value |-> None, probs |-> None, wrapped |-> FALSE]

\* no second call is running
NoCall == [call |-> 0, pc |-> "none"]

Init ==
    /\ self \in Models
    /\ arg \in Inputs(self)
    /\ data = arg
    /\ ret \in RetArgs
    /\ pc = "check_ret"
    /\ one_d = FALSE
    /\ backmappers = None
    /\ n_values = <<>>
    /\ prediction = NoPrediction
    /\ value = None
    /\ probs = None
    /\ result = NoResult
    /\ err = ""
    /\ trace = <<>>
    /\ rng0 = [s \in 1..MaxRows |-> 0]
    /\ suspended = NoCall
    /\ np_random = rng0

Step(name) == trace' = Append(trace, name)

RaiseError(e) ==
    /\ pc' = "raised"
    /\ err' = e

\* the ValueErrors of lines 333 and 335, by message
VE_Ret == "ValueError: invalid value of argument 'ret'"
VE_Continuous == "ValueError: cannot predict continuous distributions"

\* ret_error without the test of line 334
ret_error_range_only ==
    IF ~(RLeq(RInt(0), ret) /\ RLeq(ret, RInt(2))) THEN VE_Ret ELSE ""

\* lines 332-335
ret_error ==
    IF ~(RLeq(RInt(0), ret) /\ RLeq(ret, RInt(2))) THEN VE_Ret
    ELSE IF /\ RLess(RInt(0), ret)
            /\ \E i \in 1..Len(self.class_vars) : ~self.class_vars[i].is_discrete
    THEN VE_Continuous
    ELSE ""

CheckRet ==
    /\ pc = "check_ret"
    /\ Step("check_ret")
    /\ IF ret_error # ""
       THEN RaiseError(ret_error)
       ELSE pc' = "normalize" /\ err' = err
    /\ UNCHANGED <<self, suspended, np_random, arg, data, ret, one_d, backmappers, n_values, prediction,
                   value, probs, result, rng0>>

\* lines 337-347: <<one_d, data>> after the conversion of 1d structures
normalized(d) ==
    IF d.type = "Instance"
    THEN Ok(<<TRUE, [d EXCEPT !.type = "Table", !.nrows = 1]>>)
    ELSE IF d.type \in {"list", "tuple"} /\ d.len = 0
    THEN Raise("IndexError")                    \* data[0]
    ELSE IF d.type \in {"list", "tuple"} /\ d.first \notin {"list", "tuple"}
    THEN Ok(<<TRUE, ListData("list", 1, d.type)>>)
    ELSE IF d.type = "ndarray" /\ d.ndim = 1
    THEN Ok(<<TRUE, [d EXCEPT !.ndim = 2, !.nrows = 1]>>)
    ELSE Ok(<<FALSE, d>>)

Normalize ==
    /\ pc = "normalize"
    /\ Step("normalize")
    /\ LET out == normalized(data)
       IN  IF out.err # ""
           THEN RaiseError(out.err) /\ UNCHANGED <<one_d, data>>
           ELSE /\ one_d' = out.val[1]
                /\ data' = out.val[2]
                /\ pc' = "call_predictor"
                /\ err' = err
    /\ UNCHANGED <<self, suspended, np_random, arg, ret, backmappers, n_values, prediction, value, probs,
                   result, rng0>>

\* lines 352-353
PredictArray ==
    /\ pc = "call_predictor"
    /\ data.type \in {"ndarray", "csr_matrix"}
    /\ Step("predict")
    /\ Predicts(data.nrows, prediction')
    /\ pc' = "parse"
    /\ UNCHANGED <<self, suspended, np_random, arg, data, ret, one_d, backmappers, n_values, value, probs,
                   result, err, rng0>>

\* GetBackmappers run on the data already transformed to the model's domain
GetBackmappers_after_transform ==
    /\ pc = "call_predictor"
    /\ data.type = "Table"
    /\ Step("get_backmappers")
    /\ LET moved == data_to_model_domain(data)
           out == get_backmappers(moved.val.class_vars, self.class_vars)
       IN  IF moved.err # ""
           THEN RaiseError(moved.err) /\ UNCHANGED <<backmappers, n_values>>
           ELSE IF out.err # ""
           THEN RaiseError(out.err) /\ UNCHANGED <<backmappers, n_values>>
           ELSE /\ backmappers' = out.val[1]
                /\ n_values' = out.val[2]
                /\ pc' = "data_to_model_domain"
                /\ err' = err
    /\ UNCHANGED <<self, suspended, np_random, arg, data, ret, one_d, prediction, value, probs,
                   result, rng0>>

\* GetBackmappers that keeps the mappers on the model instead of in locals
GetBackmappers_on_model ==
    /\ pc = "call_predictor"
    /\ data.type = "Table"
    /\ Step("get_backmappers")
    /\ LET out == get_backmappers(data.class_vars, self.class_vars)
       IN  IF out.err # ""
           THEN RaiseError(out.err) /\ UNCHANGED <<backmappers, n_values, self>>
           ELSE /\ backmappers' = out.val[1]
                /\ n_values' = out.val[2]
                /\ self' = [class_vars |-> self.class_vars,
                            attributes |-> self.attributes,
                            original_attributes |-> self.original_attributes,
                            backmappers |-> out.val[1]]
                /\ pc' = "data_to_model_domain"
                /\ err' = err
    /\ UNCHANGED <<suspended, np_random, arg, data, ret, one_d, prediction, value, probs,
                   result, rng0>>

\* lines 354-355
GetBackmappers ==
    /\ pc = "call_predictor"
    /\ data.type = "Table"
    /\ Step("get_backmappers")
    /\ LET out == get_backmappers(data.class_vars, self.class_vars)
       IN  IF out.err # ""
           THEN RaiseError(out.err) /\ UNCHANGED <<backmappers, n_values>>
           ELSE /\ backmappers' = out.val[1]
                /\ n_values' = out.val[2]
                /\ pc' = "data_to_model_domain"
                /\ err' = err
    /\ UNCHANGED <<self, suspended, np_random, arg, data, ret, one_d, prediction, value, probs, result, rng0>>

\* line 356
DataToModelDomain ==
    /\ pc = "data_to_model_domain"
    /\ Step("data_to_model_domain")
    /\ LET out == data_to_model_domain(data)
       IN  IF out.err # ""
           THEN RaiseError(out.err) /\ UNCHANGED data
           ELSE /\ data' = out.val
                /\ pc' = "predict_storage"
                /\ err' = err
    /\ UNCHANGED <<self, suspended, np_random, arg, ret, one_d, backmappers, n_values, prediction, value,
                   probs, result, rng0>>

\* lines 358-360
FromList ==
    /\ pc = "call_predictor"
    /\ data.type \in {"list", "tuple"}
    /\ Step("from_list")
    /\ data' = transform(
            TableData("Table", self.class_vars, self.original_attributes,
                      Range(self.original_attributes), data.nrows),
            self.attributes, self.class_vars)
    /\ pc' = "predict_storage"
    /\ UNCHANGED <<self, suspended, np_random, arg, ret, one_d, backmappers, n_values, prediction, value,
                   probs, result, err, rng0>>

\* lines 357 and 361
PredictStorage ==
    /\ pc = "predict_storage"
    /\ Step("predict")
    /\ Predicts(data.nrows, prediction')
    /\ pc' = "parse"
    /\ UNCHANGED <<self, suspended, np_random, arg, data, ret, one_d, backmappers, n_values, value, probs,
                   result, err, rng0>>

\* lines 362-364
Unrecognized ==
    /\ pc = "call_predictor"
    /\ data.type \notin {"ndarray", "csr_matrix", "Table", "list", "tuple"}
    /\ Step("unrecognized")
    /\ RaiseError("TypeError")
    /\ UNCHANGED <<self, suspended, np_random, arg, data, ret, one_d, backmappers, n_values, prediction,
                   value, probs, result, rng0>>

\* parsed that reads the ranks of a single-target model whatever the model
parsed_single_target_ranks(y) ==
    IF y.is_tuple THEN Ok(<<Some(y.pair[1]), Some(y.pair[2])>>)
    ELSE IF y.arr.ndim = 1 THEN Ok(<<Some(y.arr), None>>)
    ELSE IF y.arr.ndim = 2 THEN Ok(<<None, Some(y.arr)>>)
    ELSE Raise("TypeError")

\* lines 366-375: <<value, probs>>
parsed(y) ==
    IF y.is_tuple THEN Ok(<<Some(y.pair[1]), Some(y.pair[2])>>)
    ELSE IF y.arr.ndim = 1 + m01 THEN Ok(<<Some(y.arr), None>>)
    ELSE IF y.arr.ndim = 2 + m01 THEN Ok(<<None, Some(y.arr)>>)
    ELSE Raise("TypeError")

Parse ==
    /\ pc = "parse"
    /\ Step("parse")
    /\ LET out == parsed(prediction)
       IN  IF out.err # ""
           THEN RaiseError(out.err) /\ UNCHANGED <<value, probs>>
           ELSE /\ value' = out.val[1]
                /\ probs' = out.val[2]
                /\ pc' = "backmap"
                /\ err' = err
    /\ UNCHANGED <<self, suspended, np_random, arg, data, ret, one_d, backmappers, n_values, prediction,
                   result, rng0>>

\* synthesized without the test of backmappers at line 378
synthesized_for_ret_only ==
    IF probs.none /\ ret # RInt(Value)
    THEN LET out == one_hot_probs(value.val)
         IN  IF out.err # "" THEN out ELSE Ok(Some(out.val))
    ELSE Ok(probs)

\* lines 378-379: probs after the synthesis, when it is needed
synthesized ==
    IF probs.none /\ (ret # RInt(Value) \/ ~backmappers.none)
    THEN LET out == one_hot_probs(value.val)
         IN  IF out.err # "" THEN out ELSE Ok(Some(out.val))
    ELSE Ok(probs)

\* lines 380-381: probs after backmap_probs
mapped_probs_of(p) ==
    IF p.none THEN Ok(p)
    ELSE LET out == backmap_probs(p.val, n_values, backmappers)
         IN  IF out.err # "" THEN out ELSE Ok(Some(out.val))

\* mapped_value_of that resolves from the probabilities as they were before
\* backmap_probs
mapped_value_of_unmapped_probs(p) ==
    IF ret = RInt(Probs) THEN Ok(value)
    ELSE LET out == IF value.none THEN ArgMaxLast(p.val)
                    ELSE backmap_value(value.val, synthesized.val, n_values,
                                       backmappers)
         IN  IF out.err # "" THEN out ELSE Ok(Some(out.val))

\* lines 382-387: value, given the backmapped probs
mapped_value_of(p) ==
    IF ret = RInt(Probs) THEN Ok(value)
    ELSE LET out == IF value.none THEN ArgMaxLast(p.val)
                    ELSE backmap_value(value.val, p, n_values, backmappers)
         IN  IF out.err # "" THEN out ELSE Ok(Some(out.val))

\* lines 377-387; the steps taken are recorded in the order of the code
Backmap ==
    /\ pc = "backmap"
    /\ LET p1 == synthesized
           p2 == mapped_probs_of(p1.val)
           v2 == mapped_value_of(p2.val)
           t1 == IF probs.none /\ ~(p1.err = "" /\ p1.val.none)
                 THEN Append(trace, "one_hot_probs") ELSE trace
           t2 == IF p1.val.none THEN t1 ELSE Append(t1, "backmap_probs")
           t3 == IF ret = RInt(Probs) THEN t2
                 ELSE IF value.none THEN Append(t2, "argmax")
                 ELSE Append(t2, "backmap_value")
       IN  IF p1.err # ""
           THEN RaiseError(p1.err) /\ trace' = t1 /\ UNCHANGED <<probs, value>>
           ELSE IF p2.err # ""
           THEN RaiseError(p2.err) /\ trace' = t2 /\ probs' = p1.val
                /\ UNCHANGED value
           ELSE IF v2.err # ""
           THEN RaiseError(v2.err) /\ trace' = t3 /\ probs' = p2.val
                /\ UNCHANGED value
           ELSE /\ probs' = p2.val
                /\ value' = v2.val
                /\ trace' = t3
                /\ pc' = "return"
                /\ err' = err
    /\ UNCHANGED <<self, suspended, np_random, arg, data, ret, one_d, backmappers, n_values, prediction,
                   result, rng0>>

\* lines 389-397
returned ==
    LET wrap == data.type = "Instance" /\ ~multitarget
    IN  IF ret = RInt(Probs)
        THEN [value |-> None, probs |-> Some(fix_dim(probs.val)), wrapped |-> FALSE]
        ELSE IF ret = RInt(Value)
        THEN [value |-> Some(fix_dim(value.val)), probs |-> None, wrapped |-> wrap]
        ELSE [value |-> Some(fix_dim(value.val)),
              probs |-> Some(fix_dim(probs.val)), wrapped |-> wrap]

Return ==
    /\ pc = "return"
    /\ Step("return")
    /\ result' = returned
    /\ pc' = "done"
    /\ UNCHANGED <<self, suspended, np_random, arg, data, ret, one_d, backmappers, n_values, prediction,
                   value, probs, err, rng0>>

Next ==
    \/ CheckRet
    \/ Normalize
    \/ PredictArray
    \/ GetBackmappers
    \/ DataToModelDomain
    \/ FromList
    \/ PredictStorage
    \/ Unrecognized
    \/ Parse
    \/ Backmap
    \/ Return

Spec == Init /\ [][Next]_vars

-----------------------------------------------------------------------------
(* Two concurrent calls of one model, lines 301-397.  One call runs, the   *)
(* other is suspended; the scheduler may switch between any two steps.     *)

\* the locals of the running call
locals ==
    [arg |-> arg, data |-> data, ret |-> ret, pc |-> pc, one_d |-> one_d,
     backmappers |-> backmappers, n_values |-> n_values,
     prediction |-> prediction, value |-> value, probs |-> probs,
     result |-> result, err |-> err, trace |-> trace]

\* the locals of a call that has not executed a step (lines 301-331)
NewCall(a, r) ==
    [arg |-> a, data |-> a, ret |-> r, pc |-> "check_ret", one_d |-> FALSE,
     backmappers |-> None, n_values |-> <<>>, prediction |-> NoPrediction,
     value |-> None, probs |-> None, result |-> NoResult, err |-> "",
     trace |-> <<>>]

\* the locals c of call number k, set aside while the other call runs
Suspend(c, k) ==
    [call |-> k, arg |-> c.arg, data |-> c.data, ret |-> c.ret, pc |-> c.pc,
     one_d |-> c.one_d, backmappers |-> c.backmappers, n_values |-> c.n_values,
     prediction |-> c.prediction, value |-> c.value, probs |-> c.probs,
     result |-> c.result, err |-> c.err, trace |-> c.trace]

\* the model the two calls share
SharedModels == {m \in Models : m.class_vars = <<Y2>> /\ m.original_attributes = Attrs}

\* what the two callers pass: a table of the model's domain, a table whose
\* class lists the values in another order, a table whose class is an equal
\* copy of the model's, a list, an array, a string
ConcurrentInputs(m) ==
    {TableData("Table", cv, Attrs, Range(Attrs), 1) :
        cv \in {m.class_vars, <<DiscreteVariable(2, "y", <<"b", "a">>)>>,
                <<[m.class_vars[1] EXCEPT !.id = 3]>>}}
    \cup {ListData("list", 1, "list"), ArrayData("ndarray", 2, 1), NoData("str")}

ConcurrentRetArgs == {RInt(Value), RInt(Probs)}

InitConcurrent ==
    /\ self \in SharedModels
    /\ arg \in ConcurrentInputs(self)
    /\ data = arg
    /\ ret \in ConcurrentRetArgs
    /\ pc = "check_ret"
    /\ one_d = FALSE
    /\ backmappers = None
    /\ n_values = <<>>
    /\ prediction = NoPrediction
    /\ value = None
    /\ probs = None
    /\ result = NoResult
    /\ err = ""
    /\ trace = <<>>
    /\ suspended \in {Suspend(NewCall(a, r), 2) : a \in ConcurrentInputs(self),
                                                  r \in ConcurrentRetArgs}
    /\ rng0 = [s \in 1..MaxRows |-> 0]
    /\ np_random = rng0

\* the scheduler suspends the running call and resumes the other one
Switch ==
    /\ suspended' = Suspend(locals, 3 - suspended.call)
    /\ arg' = suspended.arg
    /\ data' = suspended.data
    /\ ret' = suspended.ret
    /\ pc' = suspended.pc
    /\ one_d' = suspended.one_d
    /\ backmappers' = suspended.backmappers
    /\ n_values' = suspended.n_values
    /\ prediction' = suspended.prediction
    /\ value' = suspended.value
    /\ probs' = suspended.probs
    /\ result' = suspended.result
    /\ err' = suspended.err
    /\ trace' = suspended.trace
    /\ UNCHANGED <<self, rng0, np_random>>

NextConcurrent ==
    \/ Next
    \/ Switch

SpecConcurrent == InitConcurrent /\ [][NextConcurrent]_vars

-----------------------------------------------------------------------------
(* Direct calls of the back-mapping functions on arbitrary arrays *)

\* the entries of a non-negative input matrix
Entries == {RZero, <<1, 2>>, ROne}

Matrices(width) ==
    UNION {[1..n -> [1..width -> Entries]] : n \in 1..MaxRows}

\* single-target models and the queries for which get_backmappers builds a
\* mapper; the matrix is as wide as the model's value-set or one narrower
InitFn ==
    /\ self \in {m \in Models : Len(m.class_vars) = 1 /\ m.class_vars[1].is_discrete
                                /\ m.original_attributes = Attrs}
    /\ arg \in {TableData("Table", cv, Attrs, Range(Attrs), 0) :
                    cv \in {q \in QueryClassVars(self.class_vars) :
                        /\ get_backmappers(q, self.class_vars).err = ""
                        /\ ~get_backmappers(q, self.class_vars).val[1].none}}
    /\ data = arg
    /\ backmappers = get_backmappers(data.class_vars, self.class_vars).val[1]
    /\ n_values = get_backmappers(data.class_vars, self.class_vars).val[2]
    /\ \E w \in {Card(self.class_vars[1]) - 1, Card(self.class_vars[1])} :
            probs \in {Some(Arr(2, a)) : a \in Matrices(w)}
    /\ ret = RInt(Probs)
    /\ pc = "fn"
    /\ one_d = FALSE
    /\ prediction = NoPrediction
    /\ value = None
    /\ result = NoResult
    /\ err = ""
    /\ trace = <<>>
    /\ rng0 = [s \in 1..MaxRows |-> 0]
    /\ suspended = NoCall
    /\ np_random = rng0

\* new_probs = self.backmap_probs(probs, n_values, backmappers)
CallBackmapProbs ==
    /\ pc = "fn"
    /\ LET out == backmap_probs(probs.val, n_values, backmappers)
       IN  /\ err' = out.err
           /\ result' = IF out.err # "" THEN NoResult
                        ELSE [NoResult EXCEPT !.probs = Some(out.val)]
    /\ pc' = "fn_done"
    /\ Step("backmap_probs")
    /\ UNCHANGED <<self, suspended, np_random, arg, data, ret, one_d, backmappers, n_values, prediction,
                   value, probs, rng0>>

NextFn ==
    \/ CallBackmapProbs

SpecFn == InitFn /\ [][NextFn]_vars

-----------------------------------------------------------------------------
(* Repeated direct calls of backmap_value, with mapped_probs = None or a    *)
(* probability array, and with the process-wide generator reseeded or      *)
(* drawn from in between                                                   *)

MaxCalls == 2

\* 1-d value arrays of model indices, undefined entries included
ValueInputs(card) ==
    UNION {[1..n -> (0..(card - 1)) \cup {NaN}] : n \in 1..MaxRows}

\* the argument mapped_probs: None, or one row per value over n_value
\* categories (none when n_value is 0) with all mass on the last category
MappedProbsInputs(v, n_value) ==
    {None, Some(Arr(2, [r \in 1..Len(v.a) |-> [j \in 1..MaxOf(<<n_value, 1>>) |->
                            IF j = n_value THEN ROne ELSE RZero]]))}

InitSeed ==
    /\ self \in {m \in Models : Len(m.class_vars) = 1 /\ m.class_vars[1].is_discrete
                                /\ m.original_attributes = Attrs}
    /\ arg \in {TableData("Table", cv, Attrs, Range(Attrs), 0) :
                    cv \in {q \in QueryClassVars(self.class_vars) :
                        /\ get_backmappers(q, self.class_vars).err = ""
                        /\ ~get_backmappers(q, self.class_vars).val[1].none}}
    /\ data = arg
    /\ backmappers = get_backmappers(data.class_vars, self.class_vars).val[1]
    /\ n_values = get_backmappers(data.class_vars, self.class_vars).val[2]
    /\ value \in {Some(Arr(1, a)) : a \in ValueInputs(Card(self.class_vars[1]))}
    /\ probs \in MappedProbsInputs(value.val, n_values[1])
    /\ ret = RInt(Value)
    /\ pc = "fn"
    /\ one_d = FALSE
    /\ prediction = NoPrediction
    /\ result = <<>>
    /\ err = ""
    /\ trace = <<>>
    /\ rng0 \in Streams
    /\ np_random \in Streams
    /\ suspended = NoCall

\* self.backmap_value(value, probs, n_values, backmappers); result collects
\* what the calls returned, in order
CallBackmapValue ==
    /\ pc = "fn"
    /\ Len(result) < MaxCalls
    /\ result' = Append(result, backmap_value(value.val, probs, n_values, backmappers))
    /\ Step("backmap_value")
    /\ UNCHANGED <<self, suspended, np_random, arg, data, ret, pc, one_d, backmappers,
                   n_values, prediction, value, probs, err, rng0>>

\* np.random.seed(...) or a draw from np.random between two calls
SeedProcessWide ==
    /\ pc = "fn"
    /\ trace # <<>>
    /\ trace[Len(trace)] # "seed"
    /\ np_random' \in Streams \ {np_random}
    /\ Step("seed")
    /\ UNCHANGED <<self, suspended, arg, data, ret, pc, one_d, backmappers, n_values,
                   prediction, value, probs, result, err, rng0>>

NextSeed ==
    \/ CallBackmapValue
    \/ SeedProcessWide

SpecSeed == InitSeed /\ [][NextSeed]_vars

-----------------------------------------------------------------------------
(* Learner, lines 38-175: construction, active_preprocessors and __call__ *)

\* a tuple or list object of preprocessors; `id` is the object's identity
PPs(kind, id, items) == [kind |-> kind, id |-> id, items |-> items]

\* the empty tuple is one object
EmptyTuple == PPs("tuple", 0, <<>>)

\* tuple(x): x itself when x is a tuple, otherwise a new tuple object
TupleOf(x) ==
    IF x.items = <<>> THEN EmptyTuple
    ELSE IF x.kind = "tuple" THEN x
    ELSE PPs("tuple", x.id + 1, x.items)

\* the class attribute `preprocessors` of the Learner classes
ClassPreprocessors ==
    {EmptyTuple, PPs("tuple", 100, <<"d1">>), PPs("tuple", 100, <<"d1", "d2">>),
     PPs("list", 100, <<"d1", "d2">>)}

\* a Learner class: its class attributes and check_learner_adequacy
LearnerClasses ==
    {[preprocessors |-> d, supports_multiclass |-> m, adequate |-> a] :
        d \in ClassPreprocessors, m \in BOOLEAN, a \in BOOLEAN}

\* the argument `preprocessors` of the constructor: None (or another falsy
\* value), one preprocessor, or an iterable, the class attribute included
ConstructorArgs(cls) ==
    {[kind |-> "None", id |-> 0, items |-> <<>>],
     [kind |-> "Preprocessor", id |-> 0, items |-> <<"p1">>],
     PPs("list", 200, <<>>), PPs("list", 200, <<"p1">>),
     PPs("list", 200, <<"p1", "p2">>), PPs("list", 200, <<"p2", "p1">>),
     PPs("tuple", 300, <<"p2">>), cls.preprocessors}

\* lines 87-92: Learner.__init__(preprocessors); own is the instance
\* attribute `preprocessors`, None when the constructor did not set it
Learner__init__(cls, preprocessors) ==
    [cls |-> cls,
     use_default_preprocessors |-> FALSE,
     own |-> IF preprocessors.kind \in {"list", "tuple"}
             THEN Some(TupleOf(preprocessors))
             ELSE IF preprocessors.kind = "Preprocessor"
             THEN Some(PPs("tuple", 400, preprocessors.items))
             ELSE None]

\* self.preprocessors: the instance attribute, else the class attribute
preprocessors_of(l) == IF l.own.none THEN l.cls.preprocessors ELSE l.own.val

\* lines 141-146: the sequence that active_preprocessors yields
active_preprocessors(l) ==
    preprocessors_of(l).items \o
        (IF /\ l.use_default_preprocessors
            /\ preprocessors_of(l).id # l.cls.preprocessors.id
         THEN l.cls.preprocessors.items ELSE <<>>)

\* the data a learner is called with: a Table or an Instance with no, one
\* or two class variables
LearnerData ==
    {TableData(t, cv, Attrs, Range(Attrs), 1) :
        t \in {"Table", "Instance"}, cv \in {<<>>, <<Y2>>, <<Y2, Z3>>}}

NoModel == [fitted |-> FALSE, class_vars |-> <<>>, supports_multiclass |-> FALSE,
            original_data |-> NoData("")]

InitLearner ==
    /\ \E cls \in LearnerClasses : \E a \in ConstructorArgs(cls) :
            self = Learner__init__(cls, a)
    /\ arg \in LearnerData
    /\ data = arg
    /\ pc = "constructed"
    /\ result = NoModel
    /\ err = ""
    /\ trace = <<>>
    /\ ret = RInt(Value)
    /\ one_d = FALSE
    /\ backmappers = None
    /\ n_values = <<>>
    /\ prediction = NoPrediction
    /\ value = None
    /\ probs = None
    /\ rng0 = [s \in 1..MaxRows |-> 0]
    /\ suspended = NoCall
    /\ np_random = rng0

\* learner.use_default_preprocessors = True, set by the user before the call
SetUseDefaultPreprocessors ==
    /\ pc = "constructed"
    /\ ~self.use_default_preprocessors
    /\ self' = [self EXCEPT !.use_default_preprocessors = TRUE]
    /\ UNCHANGED <<suspended, np_random, arg, data, ret, pc, one_d, backmappers, n_values, prediction,
                   value, probs, result, err, trace, rng0>>

\* lines 105-106
CheckLearnerAdequacy ==
    /\ pc = "constructed"
    /\ Step("check_learner_adequacy")
    /\ IF ~self.cls.adequate
       THEN RaiseError("ValueError")
       ELSE pc' = "wrap" /\ err' = err
    /\ UNCHANGED <<self, suspended, np_random, arg, data, ret, one_d, backmappers, n_values, prediction,
                   value, probs, result, rng0>>

\* lines 110-111: data = Table(data.domain, [data])
wrapped_instance(d) ==
    IF d.type = "Instance" THEN [d EXCEPT !.type = "Table", !.nrows = 1] ELSE d

\* lines 108-112, up to origdata = data
WrapInstance ==
    /\ pc = "wrap"
    /\ Step("wrap")
    /\ data' = wrapped_instance(data)
    /\ pc' = "preprocess"
    /\ UNCHANGED <<self, suspended, np_random, arg, ret, one_d, backmappers, n_values, prediction,
                   value, probs, result, err, rng0>>

\* lines 113 and 135-139: the active preprocessors applied in turn
Preprocess ==
    /\ pc = "preprocess"
    /\ Step("preprocess")
    /\ data' = [data EXCEPT !.applied = active_preprocessors(self)]
    /\ pc' = "check_multiclass"
    /\ UNCHANGED <<self, suspended, np_random, arg, ret, one_d, backmappers, n_values, prediction,
                   value, probs, result, err, rng0>>

\* multiclass_error with the test of supports_multiclass dropped
multiclass_error_never == ""

\* lines 114-116: the error raised for the preprocessed data, or ""
multiclass_error ==
    IF Len(data.class_vars) > 1 /\ ~self.cls.supports_multiclass
    THEN "TypeError"
    ELSE ""

CheckMulticlass ==
    /\ pc = "check_multiclass"
    /\ Step("check_multiclass")
    /\ IF multiclass_error # ""
       THEN RaiseError(multiclass_error)
       ELSE pc' = "fit" /\ err' = err
    /\ UNCHANGED <<self, suspended, np_random, arg, data, ret, one_d, backmappers, n_values, prediction,
                   value, probs, result, rng0>>

\* lines 118-125: the model returned; origdata is the Table made of the
\* argument before the preprocessing
FitModel ==
    /\ pc = "fit"
    /\ Step("fit")
    /\ result' = [fitted |-> TRUE,
                  class_vars |-> data.class_vars,
                  supports_multiclass |-> self.cls.supports_multiclass,
                  original_data |-> wrapped_instance(arg)]
    /\ pc' = "done"
    /\ UNCHANGED <<self, suspended, np_random, arg, data, ret, one_d, backmappers, n_values, prediction,
                   value, probs, err, rng0>>

NextLearner ==
    \/ SetUseDefaultPreprocessors
    \/ CheckLearnerAdequacy
    \/ WrapInstance
    \/ Preprocess
    \/ CheckMulticlass
    \/ FitModel

SpecLearner == InitLearner /\ [][NextLearner]_vars

-----------------------------------------------------------------------------
(* Learner.name, lines 151-172: the property read by two threads.  Here    *)
(* self is the learner, pc and result are per thread, and trace lists the  *)
(* steps <<thread, step>> in the order they were taken.                    *)

MaxReads == 2

Threads == {1, 2}

\* class names, word by word, and whether the class is an SklLearner
LearnerTypes ==
    {[words |-> w, skl |-> k] :
        w \in {<<"Tree", "Learner">>, <<"Skl", "Tree", "Learner">>,
               <<"Random", "Forest", "Fitter">>, <<"Learner">>,
               <<"Tree", "Fitter", "Learner">>},
        k \in BOOLEAN}

\* str.lower() of a word
Lower(w) ==
    CASE w = "Tree" -> "tree"
      [] w = "Skl" -> "skl"
      [] w = "Random" -> "random"
      [] w = "Forest" -> "forest"
      [] w = "Fitter" -> "fitter"
      [] w = "Learner" -> "learner"
      [] OTHER -> w

StripSuffix(name, word) ==
    IF name # <<>> /\ name[Len(name)] = word
    THEN SubSeq(name, 1, Len(name) - 1) ELSE name

StripPrefix(name, word) ==
    IF name # <<>> /\ name[1] = word THEN Tail(name) ELSE name

\* lines 157-167: the name derived from the class name, the words of the
\* result being separated by spaces
derived_name(cls) ==
    LET n1 == StripSuffix(cls.words, "Learner")
        n2 == StripSuffix(n1, "Fitter")
        n3 == IF cls.skl THEN StripPrefix(n2, "Skl") ELSE n2
        n4 == IF n3 = <<>> THEN <<"learner">> ELSE n3
    IN  [i \in 1..Len(n4) |-> Lower(n4[i])]

\* the other variables are not used by the readers of the name
call_locals ==
    <<arg, data, ret, one_d, backmappers, n_values, prediction, value, probs,
      err, rng0, suspended, np_random>>

InitName ==
    /\ self \in {[cls |-> c, name |-> None] : c \in LearnerTypes}
    /\ pc = [t \in Threads |-> "idle"]
    /\ result = [t \in Threads |-> <<>>]
    /\ trace = <<>>
    /\ arg = NoData("NoneType")
    /\ data = arg
    /\ ret = RInt(Value)
    /\ one_d = FALSE
    /\ backmappers = None
    /\ n_values = <<>>
    /\ prediction = NoPrediction
    /\ value = None
    /\ probs = None
    /\ err = ""
    /\ rng0 = [s \in 1..MaxRows |-> 0]
    /\ suspended = NoCall
    /\ np_random = rng0

\* lines 154-156: a thread reads learner.name; self.__name is returned when
\* it is set, otherwise the AttributeError is caught
TryName(t) ==
    /\ pc[t] = "idle"
    /\ Len(result[t]) < MaxReads
    /\ IF self.name.none
       THEN /\ pc' = [pc EXCEPT ![t] = "derive"]
            /\ result' = result
       ELSE /\ pc' = pc
            /\ result' = [result EXCEPT ![t] = Append(@, self.name.val)]
    /\ trace' = Append(trace, <<t, "try">>)
    /\ UNCHANGED <<self, call_locals>>

\* lines 157-167: the thread derives the name into its local
DeriveName(t) ==
    /\ pc[t] = "derive"
    /\ pc' = [pc EXCEPT ![t] = "assign"]
    /\ trace' = Append(trace, <<t, "derive">>)
    /\ UNCHANGED <<self, result, call_locals>>

\* lines 168-169 and 173-174: self.name = ..., through the setter
AssignName(t) ==
    /\ pc[t] = "assign"
    /\ self' = [self EXCEPT !.name = Some(derived_name(self.cls))]
    /\ pc' = [pc EXCEPT ![t] = "return"]
    /\ trace' = Append(trace, <<t, "assign">>)
    /\ UNCHANGED <<result, call_locals>>

\* line 170: return self.name, a read of the stored name
ReturnName(t) ==
    /\ pc[t] = "return"
    /\ result' = [result EXCEPT ![t] = Append(@, self.name.val)]
    /\ pc' = [pc EXCEPT ![t] = "idle"]
    /\ trace' = Append(trace, <<t, "return">>)
    /\ UNCHANGED <<self, call_locals>>

NextName ==
    \/ \E t \in Threads : TryName(t)
    \/ \E t \in Threads : DeriveName(t)
    \/ \E t \in Threads : AssignName(t)
    \/ \E t \in Threads : ReturnName(t)

SpecName == InitName /\ [][NextName]_vars

-----------------------------------------------------------------------------
(* Model.predict and Model.predict_storage, lines 196-211: what a caller of
   either method runs, frame by frame.  `self` is an instance of a subclass
   of Model that overrides the methods in self.overrides; `trace` lists the
   frames entered, <<"Model", f>> for the method of lines 196-211 and
   <<"Subclass", f>> for an override. *)

Methods == {"predict", "predict_storage"}

\* the subclasses: every choice of overridden methods, over two domains
DispatchModels ==
    {[class_vars |-> cv, attributes |-> Attrs, original_attributes |-> Attrs,
      overrides |-> o] : cv \in {<<Y2>>, <<YC>>}, o \in SUBSET Methods}

\* predict takes a two-dimensional array X; predict_storage is given anything
DispatchInputs(m) ==
    {ArrayData("ndarray", 2, n) : n \in 1..MaxRows}
    \cup {TableData("Table", m.class_vars, Attrs, Range(Attrs), n) : n \in 1..MaxRows}
    \cup {TableData("Instance", m.class_vars, Attrs, Range(Attrs), 1)}
    \cup {ListData("list", MaxRows, "list")} \cup Others

\* attribute lookup on the instance: the subclass's method when it defines
\* one, else the inherited method of Model
bound_method(m, f) ==
    IF f \in m.overrides THEN <<"Subclass", f>> ELSE <<"Model", f>>

\* line 197 with the test always failing
predict_storage_never_inherited(m) == FALSE

\* line 197: type(self).predict_storage is Model.predict_storage
predict_storage_is_inherited(m) ==
    bound_method(m, "predict_storage") = <<"Model", "predict_storage">>

Frame(f) == "call " \o f[1] \o "." \o f[2]

InitDispatch ==
    /\ self \in DispatchModels
    /\ arg \in DispatchInputs(self)
    /\ data = arg
    /\ pc = "idle"
    /\ trace = <<>>
    /\ err = ""
    /\ prediction = NoPrediction
    /\ ret = RInt(Value)
    /\ one_d = FALSE
    /\ backmappers = None
    /\ n_values = <<>>
    /\ value = None
    /\ probs = None
    /\ result = NoResult
    /\ rng0 = [s \in 1..MaxRows |-> 0]
    /\ suspended = NoCall
    /\ np_random = rng0

\* a caller invokes model.predict(X) or model.predict_storage(data)
CallMethod(f) ==
    /\ pc = "idle"
    /\ f = "predict" => arg.type = "ndarray"
    /\ pc' = Frame(bound_method(self, f))
    /\ trace' = Append(trace, bound_method(self, f))
    /\ UNCHANGED <<self, arg, data, err, prediction, ret, one_d,
                   backmappers, n_values, value, probs, result, rng0,
                   suspended, np_random>>

\* lines 196-203: Model.predict(X)
ModelPredict ==
    /\ pc = Frame(<<"Model", "predict">>)
    /\ IF predict_storage_is_inherited(self)
       THEN /\ RaiseError("TypeError")
            /\ UNCHANGED <<data, trace>>
       ELSE \* Y is len(X) rows of NaN, one column per class variable
            /\ data' = TableData("Table", self.class_vars, self.attributes,
                                 Range(self.attributes), data.nrows)
            /\ pc' = Frame(bound_method(self, "predict_storage"))
            /\ trace' = Append(trace, bound_method(self, "predict_storage"))
            /\ err' = err
    /\ UNCHANGED <<self, arg, prediction, ret, one_d,
                   backmappers, n_values, value, probs, result, rng0,
                   suspended, np_random>>

\* lines 205-211: Model.predict_storage(data)
ModelPredictStorage ==
    /\ pc = Frame(<<"Model", "predict_storage">>)
    /\ IF data.type \in {"Table", "Instance"}
       THEN \* data.X, or np.atleast_2d(data.x): one row for an Instance
            /\ data' = ArrayData("ndarray", 2, data.nrows)
            /\ pc' = Frame(bound_method(self, "predict"))
            /\ trace' = Append(trace, bound_method(self, "predict"))
            /\ err' = err
       ELSE /\ RaiseError("TypeError")
            /\ UNCHANGED <<data, trace>>
    /\ UNCHANGED <<self, arg, prediction, ret, one_d,
                   backmappers, n_values, value, probs, result, rng0,
                   suspended, np_random>>

\* the subclass's own predict or predict_storage returns its prediction, here
\* an array of values
Overridden(f) ==
    /\ pc = Frame(<<"Subclass", f>>)
    /\ prediction' \in {Array(v) : v \in ValueArrays(data.nrows)}
    /\ pc' = "done"
    /\ UNCHANGED <<self, arg, data, err, trace, ret, one_d,
                   backmappers, n_values, value, probs, result, rng0,
                   suspended, np_random>>

NextDispatch ==
    \/ \E f \in Methods : CallMethod(f)
    \/ ModelPredict
    \/ ModelPredictStorage
    \/ \E f \in Methods : Overridden(f)

\* a call that has started runs on: each frame is a step of one thread, and
\* every step moves pc
SpecDispatch == InitDispatch /\ [][NextDispatch]_vars /\ WF_pc(NextDispatch)

-----------------------------------------------------------------------------
(* Claims *)

\* the mapper of the single target, and the rows passed to / returned by
\* the direct call of backmap_probs
FnMapper == backmappers.val[1].val
FnIn == probs.val.a
FnOut == result.probs.val.a

\* the row's mass lies entirely on categories the query does not define
NoDefinedMass(row) ==
    \A c \in 1..Len(row) : FnMapper[c] # NaN => row[c] = RZero

\* C1: a single-target backmap_probs with a mapper, n_value >= 1 and a
\* non-negative matrix returns rows that each sum to 1; a row whose mass lay
\* on undefined categories only comes out uniform, 1/n_value everywhere.
C1_RowsSumToOne ==
    (pc = "fn_done" /\ n_values[1] >= 1) =>
        /\ err = ""
        /\ Len(FnOut) = Len(FnIn)
        /\ \A r \in 1..Len(FnOut) :
            /\ Len(FnOut[r]) = n_values[1]
            /\ RSum(FnOut[r]) = ROne
            /\ NoDefinedMass(FnIn[r]) =>
                \A j \in 1..n_values[1] : FnOut[r][j] = Rat(1, n_values[1])

\* a row with all its mass on an undefined category was returned uniform
\* over two or more query categories, next to a row that was renormalised
C1_Witness ==
    /\ pc = "fn_done"
    /\ err = ""
    /\ n_values[1] >= 2
    /\ \E r \in 1..Len(FnIn) :
        /\ NoDefinedMass(FnIn[r])
        /\ RSum(FnIn[r]) # RZero
        /\ FnOut[r][1] = Rat(1, n_values[1])
    /\ \E r \in 1..Len(FnIn) :
        /\ ~NoDefinedMass(FnIn[r])
        /\ RSum(FnIn[r]) # ROne
        /\ RSum(FnOut[r]) = ROne

\* the call was made on a Table and has returned
TableCallDone ==
    /\ pc = "done"
    /\ arg.type = "Table"

\* the raw predictor's value array, when it returned one
RawValue == IF prediction.is_tuple THEN prediction.pair[1] ELSE prediction.arr
RawHasValue == prediction.is_tuple \/ prediction.arr.ndim = 1 + m01

\* entry (r, t) of a batch value array, t a 1-based target
Entry(v, r, t) == IF v.ndim = 2 THEN v.a[r][t] ELSE v.a[r]

Targets == 1..Len(self.class_vars)
Rows(v) == 1..Len(v.a)

AllDiscrete == \A t \in Targets : self.class_vars[t].is_discrete

\* the query has class variables and all of them are discrete
DiscreteQuery ==
    /\ arg.class_vars # <<>>
    /\ \A i \in 1..Len(arg.class_vars) : arg.class_vars[i].is_discrete

\* C2 as claimed: every value returned for a Table with discrete classes is
\* an index of the query's value-set, never NaN.
C2_ValueInQueryRange ==
    (TableCallDone /\ DiscreteQuery /\ AllDiscrete
        /\ ret \in {RInt(Value), RInt(ValueProbs)}) =>
        \A r \in Rows(result.value.val) : \A t \in Targets :
            /\ Entry(result.value.val, r, t) # NaN
            /\ Entry(result.value.val, r, t) >= 0
            /\ Entry(result.value.val, r, t) < n_values[t]

\* C2 amended: the returned value is an index of the query's value-set, or
\* it is NaN and the query's value-set has fewer than two categories.
C2_ValueInQueryRangeOrUnresolved ==
    (TableCallDone /\ DiscreteQuery /\ AllDiscrete
        /\ ret \in {RInt(Value), RInt(ValueProbs)}) =>
        \A r \in Rows(result.value.val) : \A t \in Targets :
            \/ /\ Entry(result.value.val, r, t) >= 0
               /\ Entry(result.value.val, r, t) < n_values[t]
            \/ /\ Entry(result.value.val, r, t) = NaN
               /\ n_values[t] < 2

\* the predictor returned an index that is only valid in the model's
\* value-set, and the call returned an index of the query's value-set
C2_Witness ==
    /\ TableCallDone
    /\ ret = RInt(Value)
    /\ ~multitarget
    /\ RawHasValue
    /\ ~backmappers.none
    /\ n_values[1] >= 2
    /\ \E r \in Rows(RawValue) :
        /\ Entry(RawValue, r, 1) >= n_values[1]
        /\ backmappers.val[1].val[Entry(RawValue, r, 1) + 1] = NaN
        /\ Entry(result.value.val, r, 1) \in 0..(n_values[1] - 1)

\* the raw predictor's probability array, when it returned one
RawProbs == IF prediction.is_tuple THEN prediction.pair[2] ELSE prediction.arr
RawHasProbs == prediction.is_tuple \/ prediction.arr.ndim = 2 + m01

\* the caller passed a Table or an Instance whose class variables are, one
\* by one, the very objects of the model's domain
IdenticalClasses ==
    /\ arg.type \in {"Table", "Instance"}
    /\ Len(arg.class_vars) = Len(self.class_vars)
    /\ \A i \in 1..Len(self.class_vars) :
            Is(arg.class_vars[i], self.class_vars[i])

\* C3: when every class variable of the query is the identical object of the
\* model, get_backmappers succeeds with backmappers None, the back-mapping
\* steps leave the predictor's values and probabilities as they are, and the
\* call returns exactly the raw predictor's values and probabilities.
C3_IdenticalUnchanged ==
    IdenticalClasses =>
        /\ Len(trace) >= 3 =>
                /\ trace[3] = "get_backmappers"
                /\ backmappers.none
                /\ ~(pc = "raised" /\ Len(trace) = 3)
        /\ pc \in {"return", "done"} =>
                /\ (RawHasValue /\ ret # RInt(Probs)) => value.val = RawValue
                /\ RawHasProbs => probs.val = RawProbs
        /\ pc = "done" =>
                /\ (RawHasValue /\ ret # RInt(Probs)) =>
                        result.value.val = fix_dim(RawValue)
                /\ (RawHasProbs /\ ret # RInt(Value)) =>
                        result.probs.val = fix_dim(RawProbs)

\* a Table over the model's own discrete class variable went through
\* backmap_probs and backmap_value and came back with the predictor's pair
C3_Witness ==
    /\ pc = "done"
    /\ arg.type = "Table"
    /\ IdenticalClasses
    /\ self.class_vars # <<>>
    /\ AllDiscrete
    /\ prediction.is_tuple
    /\ ret = RInt(ValueProbs)
    /\ \E i \in 1..Len(trace) : trace[i] = "backmap_probs"
    /\ \E i \in 1..Len(trace) : trace[i] = "backmap_value"
    /\ result.value.val = RawValue
    /\ result.probs.val = RawProbs

\* the probabilities of the model that the call back-maps: the predictor's,
\* or the one-hot rows synthesised from its values (lines 378-379)
ModelProbs == IF RawHasProbs THEN RawProbs.a ELSE one_hot(RawValue.a)

\* column j (1-based) of a row, zero beyond its width
At(row, j) == IF j <= Len(row) THEN row[j] ELSE RZero

\* the query declares the class under the same name with other values
QueryY(values) == <<DiscreteVariable(Y3.id + 10, Y3.name, values)>>

\* a model over (a, b, c) is asked for probabilities on a Table whose class
\* variable is another object of the same name with the values (a, b)
C4_Case ==
    /\ self.class_vars = <<Y3>>
    /\ arg.type = "Table"
    /\ arg.class_vars = QueryY(<<"a", "b">>)
    /\ ret = RInt(Probs)

\* only a predictor result of a wrong rank makes such a call fail
CallSucceeds == pc = "raised" => trace[Len(trace)] = "parse"

\* C4 as claimed: the call succeeds and every returned row is the model's
\* (a, b) divided by a + b.
C4_NarrowerDividedBySum ==
    C4_Case =>
        /\ CallSucceeds
        /\ pc = "done" =>
            /\ result.probs.val.ndim = 2
            /\ Len(result.probs.val.a) = Len(ModelProbs)
            /\ \A r \in 1..Len(ModelProbs) :
                LET a == At(ModelProbs[r], 1)
                    b == At(ModelProbs[r], 2)
                IN  result.probs.val.a[r] =
                        <<RDiv(a, RAdd(a, b)), RDiv(b, RAdd(a, b))>>

\* C4 amended: the call succeeds and returns two columns whose rows sum to
\* 1; a row is the model's (a, b) divided by a + b when a + b > 0, and it is
\* (1/2, 1/2) when the model put the row's whole mass on c.
C4_NarrowerRenormalised ==
    C4_Case =>
        /\ CallSucceeds
        /\ pc = "done" =>
            /\ result.probs.val.ndim = 2
            /\ Len(result.probs.val.a) = Len(ModelProbs)
            /\ \A r \in 1..Len(ModelProbs) :
                LET a == At(ModelProbs[r], 1)
                    b == At(ModelProbs[r], 2)
                    out == result.probs.val.a[r]
                IN  /\ Len(out) = 2
                    /\ RSum(out) = ROne
                    /\ out = IF RAdd(a, b) = RZero THEN <<Rat(1, 2), Rat(1, 2)>>
                             ELSE <<RDiv(a, RAdd(a, b)), RDiv(b, RAdd(a, b))>>

\* the predictor gave one row with mass on c and on a or b, which came back
\* renormalised, and one row with all its mass on c, which came back uniform
C4_Witness ==
    /\ C4_Case
    /\ pc = "done"
    /\ RawHasProbs
    /\ \E r \in 1..Len(ModelProbs) :
        /\ ModelProbs[r][3] # RZero
        /\ ModelProbs[r][3] # ROne
        /\ RSum(result.probs.val.a[r]) = ROne
    /\ \E r \in 1..Len(ModelProbs) :
        /\ ModelProbs[r][3] = ROne
        /\ result.probs.val.a[r] = <<Rat(1, 2), Rat(1, 2)>>

\* backmap_probs is called with the mapper from a model over (a, b) to a
\* query variable of the same name with the values (a, b, c), on a matrix
\* whose rows sum to 1
C5_Case ==
    /\ pc = "fn_done"
    /\ self.class_vars = <<Y2>>
    /\ arg.class_vars = QueryY(<<"a", "b", "c">>)
    /\ \A r \in 1..Len(FnIn) : RSum(FnIn[r]) = ROne

\* C5: from a model over (a, b) to a query over (a, b, c), the back-mapped
\* matrix has three columns; columns a and b hold the model's probabilities
\* row by row and column c is zero, for every input whose rows sum to 1.
C5_WiderKeepsColumns ==
    C5_Case =>
        /\ err = ""
        /\ Len(FnOut) = Len(FnIn)
        /\ \A r \in 1..Len(FnIn) :
            FnOut[r] = <<At(FnIn[r], 1), At(FnIn[r], 2), RZero>>

\* a row (1/2, 1/2) of the model came back as (1/2, 1/2, 0)
C5_Witness ==
    /\ C5_Case
    /\ \E r \in 1..Len(FnIn) :
        /\ FnIn[r] = <<Rat(1, 2), Rat(1, 2)>>
        /\ FnOut[r] = <<Rat(1, 2), Rat(1, 2), RZero>>

\* the call handed a 3-d probability array to backmap_probs while at least
\* one target had a mapper
C6_Case ==
    /\ multitarget
    /\ ~backmappers.none
    /\ \E i \in 1..Len(trace) : trace[i] = "backmap_probs"

\* C6: for a multi-target probability array and per-target mappers of which
\* at least one is not None, backmap_probs completes and returns an array of
\* shape (rows, targets, max of the query cardinalities) in which, for every
\* target, the columns from its query cardinality on are zero in every row.
C6_MultiTargetPadded ==
    C6_Case =>
        /\ ~(pc = "raised" /\ trace[Len(trace)] = "backmap_probs")
        /\ pc \in {"return", "done"} =>
            /\ probs.val.ndim = 3
            /\ Len(probs.val.a) = data.nrows
            /\ \A r \in 1..Len(probs.val.a) :
                /\ Len(probs.val.a[r]) = Len(n_values)
                /\ \A t \in 1..Len(n_values) :
                    /\ Len(probs.val.a[r][t]) = MaxOf(n_values)
                    /\ \A j \in 1..MaxOf(n_values) :
                        j > n_values[t] => probs.val.a[r][t][j] = RZero

\* probabilities are asked of a model that has a continuous class variable
C7_Case ==
    /\ ret \in {RInt(Probs), RInt(ValueProbs)}
    /\ \E i \in 1..Len(self.class_vars) : ~self.class_vars[i].is_discrete

\* C7: with ret Probs or ValueProbs and a continuous class variable in the
\* model, the call raises ValueError as its first step, whatever the input:
\* the input is not normalised, get_backmappers and the domain
\* transformation do not run and the predictor is not invoked.
C7_ContinuousRejectedFirst ==
    (C7_Case /\ pc # "check_ret") =>
        /\ pc = "raised"
        /\ err = VE_Continuous
        /\ trace = <<"check_ret">>
        /\ data = arg
        /\ ~one_d
        /\ backmappers = None
        /\ n_values = <<>>
        /\ prediction = NoPrediction

\* the call was rejected for a model that mixes a discrete and a continuous
\* class variable, on an input that the dispatch would not have recognised
C7_Witness ==
    /\ C7_Case
    /\ pc = "raised"
    /\ multitarget
    /\ self.class_vars[1].is_discrete
    /\ arg.type = "str"

\* the three recognised modes, as values of `ret`
Modes == {RInt(Value), RInt(Probs), RInt(ValueProbs)}

\* C8: every ret that is not one of Value, Probs, ValueProbs makes the call
\* raise a ValueError in the check of ret, without invoking the predictor;
\* for each of the three modes the mode check passes.
C8_OnlyModesAccepted ==
    pc # "check_ret" =>
        /\ ret \notin Modes =>
            /\ pc = "raised"
            /\ err \in {VE_Ret, VE_Continuous}
            /\ trace = <<"check_ret">>
            /\ prediction = NoPrediction
        /\ ret \in Modes => err # VE_Ret

\* the caller passed a single row: an Instance, a flat list or tuple, or a
\* 1-d dense array
SingleRow ==
    \/ arg.type = "Instance"
    \/ arg.type \in {"list", "tuple"} /\ arg.len > 0
                                      /\ arg.first \notin {"list", "tuple"}
    \/ arg.type = "ndarray" /\ arg.ndim = 1

\* y is element 0 of the batch array x
IsElement0(y, x) ==
    /\ y.ndim = x.ndim - 1
    /\ y.a = x.a[1]

\* C9: a call that returns gives a single-row input element 0 of the batch
\* value and/or probabilities (a scalar value for a flat list, ret = Value
\* and one target), and gives every other input the batch arrays themselves,
\* one row per row of the input.
C9_CardinalityRestored ==
    (pc = "done" /\ ret \in Modes) =>
        /\ result.value.none = (ret = RInt(Probs))
        /\ result.probs.none = (ret = RInt(Value))
        /\ SingleRow =>
            /\ ~result.value.none =>
                /\ Len(value.val.a) = 1
                /\ IsElement0(result.value.val, value.val)
            /\ ~result.probs.none =>
                /\ Len(probs.val.a) = 1
                /\ IsElement0(result.probs.val, probs.val)
            /\ (arg.type = "list" /\ ret = RInt(Value) /\ ~multitarget) =>
                result.value.val.ndim = 0
        /\ ~SingleRow =>
            /\ ~result.value.none =>
                /\ result.value.val.ndim = value.val.ndim
                /\ result.value.val.a = value.val.a
                /\ Len(result.value.val.a) = arg.nrows
            /\ ~result.probs.none =>
                /\ result.probs.val.ndim = probs.val.ndim
                /\ result.probs.val.a = probs.val.a
                /\ Len(result.probs.val.a) = arg.nrows

\* a flat list of two floats came back as a scalar, not a 1-element array
C9_Witness ==
    /\ pc = "done"
    /\ arg = ListData("list", 2, "float")
    /\ ret = RInt(Value)
    /\ ~multitarget
    /\ value.val.ndim = 1
    /\ result.value.val.ndim = 0
    /\ result.value.val.a = value.val.a[1]

\* the containers the call is meant to accept: an Instance, a Table, a list
\* or tuple of values or of rows, a 1-d or 2-d dense array, a sparse matrix
Recognized ==
    \/ arg.type \in {"Instance", "Table", "csr_matrix", "csc_matrix"}
    \/ arg.type \in {"list", "tuple"} /\ arg.len > 0
    \/ arg.type = "ndarray" /\ arg.ndim \in {1, 2}

\* C10: once ret is accepted, an input that is no recognised container, an
\* empty list or tuple included, is rejected with TypeError and the predictor
\* is never invoked; a recognised container passes the normaliser.
C10_UnrecognizedRejected ==
    Len(trace) >= 2 =>
        /\ ~Recognized =>
            /\ prediction = NoPrediction
            /\ pc \notin {"parse", "backmap", "return", "done"}
            /\ pc = "raised" => err = "TypeError"
        /\ Recognized => ~(pc = "raised" /\ trace[Len(trace)] = "normalize")

\* get_backmappers has run on the caller's Table or Instance
BackmappersRun == Len(trace) >= 3 /\ trace[3] = "get_backmappers"

\* get_backmappers raised: the call stopped at that step
BackmappersRaised == pc = "raised" /\ Len(trace) = 3

\* the query and the model have different numbers of class variables
CountMismatch == Len(arg.class_vars) # Len(self.class_vars)

\* C11 as claimed: whenever the numbers of class variables differ, zero
\* included, get_backmappers raises the DomainTransformationError and the
\* predictor is not invoked.
C11_CountMismatchRaises ==
    (BackmappersRun /\ CountMismatch) =>
        /\ BackmappersRaised
        /\ err = DTE_Number
        /\ prediction = NoPrediction

\* C11 amended: when both have class variables and the numbers differ,
\* get_backmappers raises the DomainTransformationError and the predictor is
\* not invoked; when either has none, it raises nothing and reports no
\* remapping, None and an empty n_values.
C11_CountMismatchRaisesUnlessClassless ==
    (BackmappersRun /\ CountMismatch) =>
        IF arg.class_vars # <<>> /\ self.class_vars # <<>>
        THEN /\ BackmappersRaised
             /\ err = DTE_Number
             /\ prediction = NoPrediction
             /\ backmappers = None
        ELSE /\ ~BackmappersRaised
             /\ backmappers = None
             /\ n_values = <<>>

\* a Table with one class variable was refused by a model that has two
C11_Witness ==
    /\ BackmappersRun
    /\ arg.type = "Table"
    /\ Len(arg.class_vars) = 1
    /\ Len(self.class_vars) = 2
    /\ BackmappersRaised
    /\ err = DTE_Number

\* the positions at which the query and the model both have a class variable
Positions ==
    {i \in 1..Len(self.class_vars) : i <= Len(arg.class_vars)}

\* at position i the query's class variable is another object of another name
OtherName(i) ==
    /\ ~Is(arg.class_vars[i], self.class_vars[i])
    /\ arg.class_vars[i].name # self.class_vars[i].name

\* C12 as claimed, for a query with as many class variables as the model:
\* a target position with different objects of different names makes
\* get_backmappers raise the 'cannot predict' error, and no mapping is
\* produced.
C12_OtherNameCannotPredict ==
    (BackmappersRun /\ ~CountMismatch /\ \E i \in Positions : OtherName(i)) =>
        /\ BackmappersRaised
        /\ err = DTE_CannotPredict
        /\ backmappers = None
        /\ n_values = <<>>

\* C12 amended: such a position makes get_backmappers raise a
\* DomainTransformationError and no mapping is produced; the error is the
\* 'cannot predict' one unless the numbers of class variables differ, whose
\* error comes first, or an earlier position holds unequal variables of the
\* same name, whose incompatible-variable error is raised instead.
C12_OtherNameRaises ==
    (BackmappersRun /\ \E i \in Positions : OtherName(i)) =>
        /\ BackmappersRaised
        /\ backmappers = None
        /\ n_values = <<>>
        /\ LET i == CHOOSE k \in Positions :
                        OtherName(k) /\ \A j \in 1..(k - 1) : ~OtherName(j)
               incompatible == \E j \in 1..(i - 1) :
                        ~VarEq(arg.class_vars[j], self.class_vars[j])
           IN  err = IF CountMismatch THEN DTE_Number
                     ELSE IF incompatible THEN DTE_Incompatible
                     ELSE DTE_CannotPredict

\* the second target of a two-target query has another name, the first is
\* the model's own variable, and the 'cannot predict' error was raised
C12_Witness ==
    /\ BackmappersRun
    /\ ~CountMismatch
    /\ multitarget
    /\ Is(arg.class_vars[1], self.class_vars[1])
    /\ OtherName(2)
    /\ BackmappersRaised
    /\ err = DTE_CannotPredict

\* at position i the query's class variable is another object of the same
\* name
SameName(i) ==
    /\ ~Is(arg.class_vars[i], self.class_vars[i])
    /\ arg.class_vars[i].name = self.class_vars[i].name

\* ... whose definition differs: in its type, its compute_value or its values
DefinitionDiffers(i) ==
    \/ arg.class_vars[i].is_discrete # self.class_vars[i].is_discrete
    \/ arg.class_vars[i].compute_value # self.class_vars[i].compute_value
    \/ arg.class_vars[i].values # self.class_vars[i].values

\* ... which differs in nothing but its values
OnlyValuesDiffer(i) ==
    /\ SameName(i)
    /\ arg.class_vars[i].is_discrete
    /\ VarEq(arg.class_vars[i], self.class_vars[i])
    /\ arg.class_vars[i].values # self.class_vars[i].values

\* the first position at which the two class variables are unequal
FirstUnequal ==
    CHOOSE i \in Positions :
        /\ ~VarEq(arg.class_vars[i], self.class_vars[i])
        /\ \A j \in 1..(i - 1) : VarEq(arg.class_vars[j], self.class_vars[j])

\* C13 as claimed, for a query with as many class variables as the model and
\* no other name among them: a position whose variables share the name but
\* differ in definition, different category sets included, makes
\* get_backmappers raise the incompatible-variable error, which is not the
\* 'cannot predict' error, and no mapping is built.
C13_SameNameIncompatible ==
    (/\ BackmappersRun
     /\ ~CountMismatch
     /\ \A i \in Positions : ~OtherName(i)
     /\ \E i \in Positions : SameName(i) /\ DefinitionDiffers(i)) =>
        /\ BackmappersRaised
        /\ err = DTE_Incompatible
        /\ DTE_Incompatible # DTE_CannotPredict
        /\ backmappers = None

\* C13 amended: with as many class variables as the model, a same-named pair
\* that differs in type or compute_value makes get_backmappers raise a
\* DomainTransformationError and build no mapping; the error is the one of
\* the first unequal pair, the incompatible-variable error for a pair of the
\* same name, which is not the 'cannot predict' error.  When all pairs are
\* equal, a pair of discrete variables that differs in its category sets
\* only raises nothing and gets its index mapping.
C13_SameNameIncompatibleUnlessValuesOnly ==
    (BackmappersRun /\ ~CountMismatch) =>
        /\ (\E i \in Positions :
                SameName(i) /\ ~VarEq(arg.class_vars[i], self.class_vars[i])) =>
            /\ BackmappersRaised
            /\ backmappers = None
            /\ DTE_Incompatible # DTE_CannotPredict
            /\ err = IF OtherName(FirstUnequal) THEN DTE_CannotPredict
                     ELSE DTE_Incompatible
        /\ (\A i \in Positions : VarEq(arg.class_vars[i], self.class_vars[i])) =>
            \A i \in Positions : OnlyValuesDiffer(i) =>
                /\ ~BackmappersRaised
                /\ ~backmappers.none
                /\ backmappers.val[i] =
                    Some(get_mapper_from(arg.class_vars[i], self.class_vars[i]))

\* a discrete class variable met a continuous one of the same name and the
\* incompatible-variable error was raised
C13_Witness ==
    /\ BackmappersRun
    /\ ~CountMismatch
    /\ self.class_vars # <<>>
    /\ SameName(1)
    /\ self.class_vars[1].is_discrete
    /\ ~arg.class_vars[1].is_discrete
    /\ BackmappersRaised
    /\ err = DTE_Incompatible

\* data_to_model_domain has run on the caller's Table
TransformRun ==
    /\ arg.type = "Table"
    /\ Len(trace) >= 4
    /\ trace[4] = "data_to_model_domain"

TransformRaised == pc = "raised" /\ Len(trace) = 4

\* the Table's domain is not the model's, its attributes are not those of
\* the model's original domain, and its X is neither empty nor all undefined
C14_Case ==
    /\ TransformRun
    /\ ~DomainEq(arg, self)
    /\ self.original_attributes # arg.attributes
    /\ X_size(arg) # 0
    /\ ~all_nan(arg)

\* the Table in the model's original domain
Intermediate == transform(arg, self.original_attributes, self.class_vars)

\* C14: such a Table is first transformed into the model's original domain;
\* if that X is entirely undefined the call fails with the
\* DomainTransformationError and the predictor is never invoked, otherwise
\* the intermediate table is transformed into the inference domain and that
\* table is predicted on.
C14_ThroughOriginalDomain ==
    C14_Case =>
        IF all_nan(Intermediate)
        THEN /\ TransformRaised
             /\ err = DTE_NoDefined
             /\ prediction = NoPrediction
        ELSE /\ ~TransformRaised
             /\ data = transform(Intermediate, self.attributes, self.class_vars)
             /\ Len(trace) >= 5 => trace[5] = "predict"

\* a Table over an attribute the model does not know, with defined values,
\* was refused after the transformation into the original domain
C14_Witness ==
    /\ C14_Case
    /\ arg.attributes = <<"u">>
    /\ arg.X_defined = {"u"}
    /\ all_nan(Intermediate)
    /\ TransformRaised
    /\ err = DTE_NoDefined

\* C15: a Table whose domain equals the model's inference domain comes out
\* of data_to_model_domain as the very same table, without an error,
\* whatever the model's original domain and the contents of X.
C15_EqualDomainUnchanged ==
    (TransformRun /\ DomainEq(arg, self)) =>
        /\ ~TransformRaised
        /\ data = arg

\* a Table with an entirely undefined X in the inference domain of a model
\* whose original domain has other attributes was predicted on as it is
C15_Witness ==
    /\ TransformRun
    /\ DomainEq(arg, self)
    /\ self.original_attributes # arg.attributes
    /\ all_nan(arg)
    /\ X_size(arg) # 0
    /\ pc = "done"
    /\ data = arg

\* the model has one class variable, which is discrete
SingleDiscrete ==
    /\ Len(self.class_vars) = 1
    /\ self.class_vars[1].is_discrete

\* C16: an Instance given to a model with one discrete class variable with
\* ret = Value comes back as the predicted index wrapped in a Value of the
\* class variable, not as a bare number.
C16_InstanceValueWrapped ==
    (pc = "done" /\ arg.type = "Instance" /\ ret = RInt(Value) /\ SingleDiscrete)
        => result.wrapped

\* the learner was called on data that has, preprocessed, more than one
\* class variable, and does not support that
C17_Case ==
    /\ Len(data.class_vars) > 1
    /\ ~self.cls.supports_multiclass
    /\ self.cls.adequate

\* C17 as claimed: such a call is rejected with a ValueError and no model is
\* fitted.
C17_MulticlassValueError ==
    (C17_Case /\ pc \in {"raised", "fit", "done"}) =>
        /\ pc = "raised"
        /\ err = "ValueError"
        /\ ~result.fitted

\* C17 amended: such a call is rejected with a TypeError, after the
\* preprocessing and before any model is fitted.
C17_MulticlassTypeError ==
    (C17_Case /\ pc \in {"raised", "fit", "done"}) =>
        /\ pc = "raised"
        /\ err = "TypeError"
        /\ trace[Len(trace)] = "check_multiclass"
        /\ ~result.fitted

\* a learner without multi-target support refused a Table with two class
\* variables
C17_Witness ==
    /\ C17_Case
    /\ arg.type = "Table"
    /\ pc = "raised"
    /\ err = "TypeError"

\* the call with locals c has built its backmappers and gone on
PastBackmappers(c) ==
    /\ Len(c.trace) >= 3
    /\ c.trace[3] = "get_backmappers"
    /\ c.pc # "raised"

\* the backmappers a call holds are those of its own data and the model
OwnBackmappers(c) ==
    PastBackmappers(c) =>
        /\ c.backmappers = get_backmappers(c.arg.class_vars, self.class_vars).val[1]
        /\ c.n_values = get_backmappers(c.arg.class_vars, self.class_vars).val[2]

\* C18: Model.__call__ never writes to the model: in every interleaving of
\* two calls of one model, each step leaves the model as it was (the same
\* domain and original domain, no backmapper stored on it) and leaves the
\* locals of the other call as they were, and the backmappers a call works
\* with are always those of its own data; so each call runs as it would
\* run alone.
C18_ModelNeverWritten ==
    /\ [](OwnBackmappers(locals) /\ OwnBackmappers(suspended))
    /\ [][/\ self' = self
          /\ IF suspended'.call = suspended.call
             THEN suspended' = suspended
             ELSE /\ suspended' = Suspend(locals, suspended'.call)
                  /\ Suspend(locals', suspended.call) = suspended]_vars

\* both calls are between get_backmappers and return at the same time, one
\* with a mapper for its table, the other with none
C18_Witness ==
    /\ PastBackmappers(locals)
    /\ PastBackmappers(suspended)
    /\ pc = "backmap"
    /\ suspended.pc \in {"predict_storage", "parse", "backmap"}
    /\ ~backmappers.none
    /\ suspended.backmappers.none

\* the learner has applied its active preprocessors to the data
Preprocessed == pc \in {"check_multiclass", "fit", "done"}

\* the constructor was given preprocessors: it set the instance attribute
UserPreprocessors == ~self.own.none

\* the documented policy, lines 41-51
DocumentedPolicy ==
    IF ~UserPreprocessors THEN self.cls.preprocessors.items
    ELSE IF ~self.use_default_preprocessors THEN self.own.val.items
    ELSE self.own.val.items \o self.cls.preprocessors.items

\* C19: the preprocessors a learner applies are those of the documented
\* policy: the class defaults, once, when the constructor was given none;
\* the user's, in their order, when the flag is unset; the user's followed
\* by the class defaults when the flag is set.
C19_ActivePreprocessorsPolicy ==
    Preprocessed => data.applied = DocumentedPolicy

\* the rows of the value array whose index the query does not define
Undefined == {r \in 1..Len(value.val.a) :
                 MapArray(backmappers.val[1].val, value.val.a)[r] = NaN}

\* C20: resolving undefined indices without probabilities is deterministic:
\* all backmap_value calls with the same value array, mapper and n_values
\* and mapped_probs = None return the same result, whatever was called
\* before and whatever the state of the process-wide generator is.
C20_SameInputsSameResult ==
    \A i, j \in 1..Len(result) : result[i] = result[j]

\* two calls resolved an undefined index by a draw, and the process-wide
\* generator was reseeded between them
C20_Witness ==
    /\ trace = <<"backmap_value", "seed", "backmap_value">>
    /\ probs.none
    /\ Undefined # {}
    /\ n_values[1] >= 3
    /\ result[2].err = ""
    /\ \A r \in Undefined : result[2].val.a[r] # NaN

\* the rows whose model index has no counterpart in the query value-set
NoCounterpart == {r \in Undefined : value.val.a[r] # NaN}

\* a direct call drew for an undefined entry: the query has two or more
\* categories and the value array has a model index the query lacks
C21_Case ==
    /\ pc = "fn"
    /\ probs.none
    /\ Len(result) >= 1
    /\ NoCounterpart # {}
    /\ n_values[1] >= 2

\* C21: without probabilities, an undefined entry is replaced by a draw from
\* exactly the query's valid category indices 0..n-1: the call succeeds, the
\* candidates are those indices, all of them, and the entry is one of them.
C21_CandidatesAreQueryIndices ==
    C21_Case =>
        /\ result[1].err = ""
        /\ Range(candidates(n_values[1], backmappers.val[1].val))
               = 0..(n_values[1] - 1)
        /\ \A r \in NoCounterpart : result[1].val.a[r] \in 0..(n_values[1] - 1)

\* the steps named were both taken, the first before the second
Before(first, second) ==
    \E i, j \in 1..Len(trace) :
        i < j /\ trace[i] = first /\ trace[j] = second

\* index v holds the maximum of row, and no lower index does
LowestMaximum(row, v) ==
    /\ v \in 0..(Len(row) - 1)
    /\ \A k \in 1..Len(row) : ~RLess(row[v + 1], row[k])
    /\ \A k \in 1..v : RLess(row[k], row[v + 1])

\* a single-target call has backmapped, with a mapper, a value array that
\* the predictor returned
C22_Case ==
    /\ pc \in {"return", "done"}
    /\ ~multitarget
    /\ RawHasValue
    /\ ret # RInt(Probs)
    /\ ~backmappers.none
    /\ ~backmappers.val[1].none

\* C22: Model.__call__ backmaps the probabilities before the values; a row
\* whose predicted model index the query does not define (two or more query
\* categories) gets the lowest index holding the maximum of its backmapped
\* probability row; a row whose index is defined gets the mapped index.
C22_UndefinedFromMappedProbs ==
    C22_Case =>
        /\ Before("backmap_probs", "backmap_value")
        /\ \A r \in Rows(RawValue) :
            LET raw == RawValue.a[r]
                mapped == FnMapper[raw + 1]
            IN  raw # NaN =>
                    IF mapped # NaN THEN value.val.a[r] = mapped
                    ELSE n_values[1] >= 2 =>
                            LowestMaximum(probs.val.a[r], value.val.a[r])

\* the predictor returned values and probabilities; a row's index is
\* undefined in the query and its value came from the backmapped row,
\* which is not uniform
C22_Witness ==
    /\ C22_Case
    /\ pc = "done"
    /\ prediction.is_tuple
    /\ n_values[1] >= 2
    /\ \E r \in Rows(RawValue) :
        /\ RawValue.a[r] # NaN
        /\ FnMapper[RawValue.a[r] + 1] = NaN
        /\ LowestMaximum(probs.val.a[r], value.val.a[r])
        /\ \E k \in 1..Len(probs.val.a[r]) :
                RLess(probs.val.a[r][k], probs.val.a[r][value.val.a[r] + 1])

\* the predictor returned a value array only and the call has gone through
\* lines 377-387 (or has raised there)
C23_Case ==
    /\ ~prediction.is_tuple
    /\ prediction.arr.ndim = 1 + m01
    /\ \/ pc \in {"return", "done"}
       \/ pc = "raised" /\ trace[Len(trace)] \in
                {"one_hot_probs", "backmap_probs", "backmap_value"}

\* probabilities were synthesized, or the attempt raised
Synthesized == "one_hot_probs" \in Range(trace)

\* row is one-hot: 1 at the 0-based index v, 0 elsewhere
OneHotAt(row, v) ==
    \A j \in 1..Len(row) : row[j] = (IF j = v + 1 THEN ROne ELSE RZero)

\* the maximum model class cardinality
MaxModelCard ==
    MaxOf([t \in 1..Len(self.class_vars) |-> Card(self.class_vars[t])])

\* C23: from a value-only prediction, probabilities are synthesized exactly
\* when ret is not Value or backmappers is not None, before backmap_probs;
\* each synthesized row is one-hot at the predicted index, and for a
\* multi-target model every target's row has the maximum model cardinality
\* as its length; otherwise nothing is synthesized and the value array is
\* returned as the predictor produced it.
C23_OneHotSynthesis ==
    C23_Case =>
        /\ Synthesized <=> (ret # RInt(Value) \/ ~backmappers.none)
        /\ Synthesized =>
            LET out == one_hot_probs(prediction.arr)
            IN  /\ out.err = ""
                /\ \A r \in Rows(prediction.arr) :
                    IF multitarget
                    THEN \A t \in Targets :
                            /\ Len(out.val.a[r][t]) = MaxModelCard
                            /\ OneHotAt(out.val.a[r][t], prediction.arr.a[r][t])
                    ELSE OneHotAt(out.val.a[r], prediction.arr.a[r])
                /\ "backmap_probs" \in Range(trace) =>
                        Before("one_hot_probs", "backmap_probs")
        /\ ~Synthesized =>
                /\ pc # "raised"
                /\ probs.none
                /\ value.val = prediction.arr

\* a direct single-target call with a mapper for a query of fewer than two
\* categories
C24_Case ==
    /\ pc = "fn"
    /\ Len(result) >= 1
    /\ n_values[1] < 2

\* C24: when the query value-set has fewer than two categories, every entry
\* comes back as the mapper gives it: undefined entries stay NaN, with
\* probabilities available or not, and defined entries are translated.
C24_FewCategoriesUnresolved ==
    C24_Case =>
        /\ result[1].err = ""
        /\ \A r \in Rows(value.val) :
            result[1].val.a[r] = MapArray(FnMapper, value.val.a)[r]

\* probabilities were passed, one entry stayed NaN and another was translated
C24_Witness ==
    /\ C24_Case
    /\ ~probs.none
    /\ result[1].err = ""
    /\ \E r \in NoCounterpart : result[1].val.a[r] = NaN
    /\ \E r \in Rows(value.val) :
        /\ r \notin Undefined
        /\ result[1].val.a[r] = FnMapper[value.val.a[r] + 1]

\* the array x is the local held in the optional l
Holds(l, x) ==
    /\ ~l.none
    /\ l.val.ndim = x.ndim
    /\ l.val.a = x.a

\* the rank of the prediction is one that lines 367-372 recognize
RankRecognized ==
    \/ prediction.is_tuple
    \/ prediction.arr.ndim \in {1 + m01, 2 + m01}

\* the predictor returned probabilities only
ProbsOnly == ~prediction.is_tuple /\ prediction.arr.ndim = 2 + m01

\* C25: the predictor's result is parsed by rank, m = 1 for a multi-target
\* model: a tuple is (values, probabilities), rank 1+m is values, rank 2+m
\* is probabilities, any other rank is a TypeError; from probabilities only
\* and ret other than Probs, the value is the lowest index of the maximum
\* of each backmapped probability row along the last axis.
C25_ParsedByRank ==
    /\ pc = "backmap" =>
        IF prediction.is_tuple
        THEN Holds(value, prediction.pair[1]) /\ Holds(probs, prediction.pair[2])
        ELSE IF prediction.arr.ndim = 1 + m01
        THEN Holds(value, prediction.arr) /\ probs.none
        ELSE /\ prediction.arr.ndim = 2 + m01
             /\ value.none
             /\ Holds(probs, prediction.arr)
    /\ ("parse" \in Range(trace) /\ ~RankRecognized) =>
        /\ pc = "raised"
        /\ err = "TypeError"
        /\ trace[Len(trace)] = "parse"
    /\ (pc = "raised" /\ trace[Len(trace)] = "parse") => ~RankRecognized
    /\ (pc \in {"return", "done"} /\ ProbsOnly /\ ret # RInt(Probs)) =>
        /\ ~value.none
        /\ value.val.ndim = 1 + m01
        /\ \A r \in Rows(probs.val) :
            IF multitarget
            THEN \A t \in 1..Len(probs.val.a[r]) :
                    LowestMaximum(probs.val.a[r][t], value.val.a[r][t])
            ELSE LowestMaximum(probs.val.a[r], value.val.a[r])

\* the predictor returned probabilities only; the value returned is the
\* maximum's index in the query's encoding, which is not its index in the
\* model's
C25_Witness ==
    /\ pc = "done"
    /\ ProbsOnly
    /\ ~multitarget
    /\ ret = RInt(Value)
    /\ ~backmappers.none
    /\ ~backmappers.val[1].none
    /\ \E r \in Rows(probs.val) :
        /\ LowestMaximum(probs.val.a[r], value.val.a[r])
        /\ ~LowestMaximum(prediction.arr.a[r], value.val.a[r])

\* the predictions p and q are the same arrays
SamePrediction(p, q) ==
    /\ p.is_tuple = q.is_tuple
    /\ p.arr.ndim = q.arr.ndim
    /\ p.arr.a = q.arr.a
    /\ p.is_tuple =>
        /\ p.pair[1].a = q.pair[1].a
        /\ p.pair[2].a = q.pair[2].a

\* the optional arrays x and y are both None or the same array
SameArray(x, y) ==
    /\ x.none = y.none
    /\ ~x.none =>
        /\ x.val.ndim = y.val.ndim
        /\ x.val.a = y.val.a

\* the class variable of the table d is an equal copy of the model's:
\* another object with the name and the value-set of the model's
EqualCopy(d) ==
    /\ d.type = "Table"
    /\ Len(d.class_vars) = 1
    /\ ~Is(d.class_vars[1], self.class_vars[1])
    /\ d.class_vars[1].name = self.class_vars[1].name
    /\ d.class_vars[1].values = self.class_vars[1].values

\* the table d holds the model's own class variable
SameObject(d) ==
    /\ d.type = "Table"
    /\ Len(d.class_vars) = 1
    /\ Is(d.class_vars[1], self.class_vars[1])

\* a call on an equal copy and a call on the identical object, with the
\* same ret, were given the same prediction
C26_Case ==
    /\ EqualCopy(arg)
    /\ SameObject(suspended.arg)
    /\ ret = suspended.ret
    /\ pc \in {"done", "raised"}
    /\ suspended.pc \in {"done", "raised"}
    /\ SamePrediction(prediction, suspended.prediction)

\* C26: for a query class that is an equal copy of the model's, the mapper
\* built is the identity map, and the call ends as it ends for the identical
\* object: with the same values and probabilities, or with the same error.
C26_EqualCopyAsIdentical ==
    C26_Case =>
        /\ pc = suspended.pc
        /\ err = suspended.err
        /\ ~backmappers.none
        /\ ~backmappers.val[1].none
        /\ backmappers.val[1].val = [i \in 1..Card(self.class_vars[1]) |-> i - 1]
        /\ SameArray(result.value, suspended.result.value)
        /\ SameArray(result.probs, suspended.result.probs)

\* how many times the step was taken, by any thread
Times(step) == Cardinality({i \in 1..Len(trace) : trace[i][2] = step})

\* C27: the default name of a learner is derived and stored at most once,
\* in every interleaving of the threads that read it, and every read
\* returns the stored name.
C27_NameComputedOnce ==
    /\ Times("derive") <= 1
    /\ Times("assign") <= 1
    /\ \A t \in Threads : \A i \in 1..Len(result[t]) :
            result[t][i] = derived_name(self.cls)

\* the call has called backmap_value with a backmappers list
C28_Case ==
    /\ "backmap_value" \in Range(trace)
    /\ ~backmappers.none

\* C28: whenever Model.__call__ calls backmap_value with a non-None
\* backmappers list, the probabilities it passes are not None, so the draw
\* of lines 267-269 is not executed and an undefined index of a single
\* target is resolved from its probability row.
C28_ProbsPassedToBackmapValue ==
    C28_Case =>
        /\ ~probs.none
        /\ (pc \in {"return", "done"} /\ ~multitarget
                /\ ~backmappers.val[1].none /\ n_values[1] >= 2) =>
            \A r \in Rows(RawValue) :
                (RawValue.a[r] # NaN /\ FnMapper[RawValue.a[r] + 1] = NaN) =>
                    LowestMaximum(probs.val.a[r], value.val.a[r])

\* ret is Value and the predictor returned values only: the probabilities
\* passed were synthesized, and an undefined index was resolved from them
C28_Witness ==
    /\ C28_Case
    /\ pc = "done"
    /\ arg.type = "Table"
    /\ ret = RInt(Value)
    /\ ~prediction.is_tuple
    /\ Synthesized
    /\ ~multitarget
    /\ ~backmappers.val[1].none
    /\ n_values[1] >= 2
    /\ \E r \in Rows(RawValue) :
        /\ RawValue.a[r] # NaN
        /\ FnMapper[RawValue.a[r] + 1] = NaN
        /\ result.value.val.a[r] \in 0..(n_values[1] - 1)

\* what get_backmappers and data_to_model_domain give for the Table passed
ArgBackmappers == get_backmappers(arg.class_vars, self.class_vars)
ArgTransformed == data_to_model_domain(arg)

\* a call on a Table has reached the predictor branch of lines 354-357
C29_Case ==
    /\ arg.type = "Table"
    /\ Len(trace) >= 3

\* C29: for a Table the call resolves the backmappers from the class
\* variables of the Table as passed, then transforms the data, then invokes
\* the predictor: a class mismatch is raised whether or not the
\* transformation would fail, and the predictor is invoked at most once and
\* only when both earlier steps succeeded.
C29_FixedOrder ==
    C29_Case =>
        /\ trace[3] = "get_backmappers"
        /\ Len(trace) >= 4 => trace[4] = "data_to_model_domain"
        /\ Len(trace) >= 5 => trace[5] = "predict"
        /\ IF ArgBackmappers.err # ""
           THEN /\ pc = "raised"
                /\ err = ArgBackmappers.err
                /\ Len(trace) = 3
           ELSE /\ backmappers = ArgBackmappers.val[1]
                /\ n_values = ArgBackmappers.val[2]
                /\ (Len(trace) >= 4 /\ ArgTransformed.err # "") =>
                        /\ pc = "raised"
                        /\ err = ArgTransformed.err
                        /\ Len(trace) = 4
        /\ Cardinality({i \in 1..Len(trace) : trace[i] = "predict"}) <= 1
        /\ (ArgBackmappers.err # "" \/ ArgTransformed.err # "") =>
                /\ "predict" \notin Range(trace)
                /\ prediction = NoPrediction

\* the class variable of the Table cannot be predicted and its attributes
\* cannot be transformed either; the class mismatch was raised
C29_Witness ==
    /\ C29_Case
    /\ ArgBackmappers.err # ""
    /\ ArgTransformed.err # ""
    /\ pc = "raised"
    /\ err = ArgBackmappers.err
    /\ err # ArgTransformed.err

\* C30: predict and predict_storage calling each other
FirstFrame == trace[1]
Started == pc # "idle"
Finished == pc \in {"done", "raised"}
Entered(frame) == Cardinality({i \in 1..Len(trace) : trace[i] = frame})
\* the delegations made so far: each frame after the first was entered by one
Hops == Len(trace) - 1
OtherMethod(f) == CHOOSE g \in Methods : g # f
\* predict passes on whatever it is given, predict_storage only a Storage or
\* an Instance
Delegable == FirstFrame[2] = "predict" \/ arg.type \in {"Table", "Instance"}
\* the caller invoked the inherited method of a subclass that overrides only
\* the other one
C30_OneOverridden ==
    /\ Started
    /\ Cardinality(self.overrides) = 1
    /\ FirstFrame[1] = "Model"
C30_NeitherOverridden ==
    (Started /\ self.overrides = {}) =>
        /\ Hops <= 1
        /\ Finished => (pc = "raised" /\ err = "TypeError")
C30_NoLoop ==
    C30_OneOverridden =>
        /\ Entered(FirstFrame) = 1
        /\ Entered(<<"Subclass", OtherMethod(FirstFrame[2])>>) <= 1
        /\ Hops <= 1

====
